---- MODULE Spec2Model ----
(***************************************************************************)
(* Document structuring engine of docstrange (src/docstrange/result.py):   *)
(* MarkdownToJSONParser (markdown text -> Document Model), the renderer    *)
(* MarkdownToHTMLConverter and the exports of ConversionResult; and the    *)
(* table grid reconstruction of NeuralDocumentProcessor                    *)
(* (pipeline/neural_document_processor.py).                                *)
(*                                                                         *)
(* Markdown text is a non-empty sequence of lines (the text split on       *)
(* "\n").  A line is a record [k, lv, cells]:                              *)
(*   k = "hdr"   a header line of lv '#' characters, a blank and a title   *)
(*   k = "text"  a line of plain words (no markdown syntax)                *)
(*   k = "blank" the empty line                                            *)
(*   k = "row"   a pipe row "| c1 | c2 |" with the cells in `cells`;       *)
(*               the cell "-" is a cell of dashes, "" an empty cell        *)
(*   k = "ul"    an unordered list line: lv blanks, "- " and the item text *)
(*               cells[1]                                                  *)
(*   k = "ol"    an ordered list line: lv blanks, "1. " and the item text  *)
(*   k = "fence" a code fence, the line of three backquotes                *)
(*   k = "img"   a line holding one image, "![i](u)"                       *)
(* No line carries trailing white space, so line.rstrip() leaves it as is. *)
(***************************************************************************)
EXTENDS Integers, Sequences, FiniteSets, TLC

VARIABLES
    content,    \* ConversionResult.content, the markdown text as lines
    op,         \* the last call made on the result: "new", "parse" or "csv"
    doc,        \* the document the call returned, when it was parse
    req,        \* the arguments and environment of the call, when it was an export
    out,        \* what the call returned or raised, when it was extract_csv
    json_data,  \* what the call returned, when it was extract_data
    html,       \* what the call returned or raised, when it was the renderer's extract
    table_data, \* _organize_table_data: the texts extracted from the cells
    table_out,  \* _organize_table_data: the output of the table structure model
    processed_table,    \* what _organize_table_data returned
    calls,      \* concurrent calls on one parser and one renderer: what each is doing
    frames,     \* the local variables of the calls in progress
    page,       \* one page on its way through the layout-aware extraction
    grouping,   \* the OCR elements of an image and the lines they are grouped into
    cloud       \* a CloudConversionResult, its cache, and the cloud API's record of requests

docVars == <<content, op, doc, req, out, json_data, html>>
tableVars == <<table_data, table_out, processed_table>>
concVars == <<calls, frames>>
serviceVars == <<page, grouping, cloud>>
vars ==
    <<content, op, doc, req, out, json_data, html, table_data, table_out, processed_table,
      calls, frames, page, grouping, cloud>>

(***************************************************************************)
(* Bounds of the checked input space.                                      *)
(***************************************************************************)
MaxLevel == 3
MaxHeaderLines == 5
MaxTableLines == 3
MaxBlocks == 3
MaxIndex == 2
MaxOllamaLines == 1
MaxListLines == 4
MaxMixedBlocks == 3
MaxCells == 2
MaxRenderLines == 3
MaxConcLines == 2
MaxCodeLines == 2
MaxPageBlocks == 2
MaxTextBlocks == 3
MaxCloudRequests == 3

\* line_height_threshold = 20  # pixels  (line_threshold in ImageProcessor)
line_height_threshold == 20

(***************************************************************************)
(* Lines.                                                                  *)
(***************************************************************************)
HdrLine(l) == [k |-> "hdr", lv |-> l, cells |-> <<>>]
TextLine == [k |-> "text", lv |-> 0, cells |-> <<>>]
BlankLine == [k |-> "blank", lv |-> 0, cells |-> <<>>]
RowLine(cs) == [k |-> "row", lv |-> 0, cells |-> cs]
UnorderedLine(indent, text) == [k |-> "ul", lv |-> indent, cells |-> <<text>>]
OrderedLine(indent, text) == [k |-> "ol", lv |-> indent, cells |-> <<text>>]
FenceLine == [k |-> "fence", lv |-> 0, cells |-> <<>>]
ImageLine == [k |-> "img", lv |-> 0, cells |-> <<>>]

SeqUpTo(S, n) == UNION {[1..m -> S] : m \in 0..n}
NonEmptySeqUpTo(S, n) == UNION {[1..m -> S] : m \in 1..n}

Last(s) == s[Len(s)]
Front(s) == SubSeq(s, 1, Len(s) - 1)

RECURSIVE Concat(_)
Concat(ss) == IF ss = <<>> THEN <<>> ELSE Head(ss) \o Concat(Tail(ss))

RECURSIVE MaxOf(_)
MaxOf(s) ==
    IF Len(s) = 1 THEN s[1]
    ELSE LET m == MaxOf(Tail(s)) IN IF s[1] >= m THEN s[1] ELSE m

(***************************************************************************)
(* The regular expressions of MarkdownToJSONParser.__init__, on lines.     *)
(***************************************************************************)
\* header_pattern ^(#{1,6})\s+(.+)$ : one to six '#', white space, a title
HeaderMatch(line) == line.k = "hdr" /\ line.lv \in 1..6

\* line.strip() is empty
IsBlank(line) == line.k = "blank"

\* list_item_pattern ^(\s*)[*\-+]\s+(.+)$ : indent, a marker, white space, a text
UnorderedMatch(line) == line.k = "ul"

\* ordered_list_pattern ^(\s*)\d+\.\s+(.+)$ : indent, a number and a dot, a text
OrderedMatch(line) == line.k = "ol"

\* image_pattern !\[([^\]]*)\]\(([^)]+)\) is found in the line
ImageMatch(line) == line.k = "img"

\* \|(.+)\| spanning a whole line: a pipe row
RowLike(line) == line.k = "row"

\* \|[-\s|:]+\| spanning a whole line: a pipe row made of dashes, blanks and pipes
SepLike(line) == line.k = "row" /\ \A i \in 1..Len(line.cells) : line.cells[i] \in {"", "-"}

\* [cell.strip() for cell in s.split('|') if cell.strip()]
SplitCells(line) == SelectSeq(line.cells, LAMBDA c : c # "")

\* table_pattern (result.py:26), on lines: a header row, a separator and a
\* group of body rows.  \s matches the newline, so blank lines are skipped
\* between the header row, the separator and the body rows, and the
\* separator class [-\s|:] runs over every following line made of dashes,
\* blanks and pipes; the separator must be followed by a newline.

\* first index >= i of a non-blank line, Len(lines) + 1 when there is none
RECURSIVE SkipBlank(_, _)
SkipBlank(lines, i) ==
    IF i > Len(lines) THEN i
    ELSE IF IsBlank(lines[i]) THEN SkipBlank(lines, i + 1) ELSE i

\* the lines at which the separator part can end when it starts at line j:
\* every line of j..e is blank or separator-like, line e is separator-like
\* and a newline follows it
SepEnds(lines, j) ==
    {e \in j..(Len(lines) - 1) :
        /\ SepLike(lines[e])
        /\ \A t \in j..e : SepLike(lines[t]) \/ IsBlank(lines[t])}

\* the greedy class takes the longest separator
SepEnd(lines, j) == CHOOSE e \in SepEnds(lines, j) : \A d \in SepEnds(lines, j) : d <= e

\* last line of the group of body rows starting at line b
RECURSIVE BodyEnd(_, _)
BodyEnd(lines, b) ==
    IF b <= Len(lines) /\ (RowLike(lines[b]) \/ IsBlank(lines[b]))
    THEN BodyEnd(lines, b + 1)
    ELSE b - 1

\* does table_pattern match with its header row on line i
TableMatchAt(lines, i) ==
    /\ RowLike(lines[i])
    /\ LET j == SkipBlank(lines, i + 1)
       IN j <= Len(lines) /\ SepLike(lines[j]) /\ SepEnds(lines, j) # {}

\* rows of one match: non-blank lines holding a pipe, cells split on '|',
\* empty cells dropped, rows without cells dropped (result.py:258-263)
RECURSIVE ParseRows(_, _, _)
ParseRows(lines, b, f) ==
    IF b > f THEN <<>>
    ELSE LET cells == SplitCells(lines[b])
         IN (IF RowLike(lines[b]) /\ cells # <<>> THEN <<cells>> ELSE <<>>)
            \o ParseRows(lines, b + 1, f)

MakeTable(headers, rows) == [headers |-> headers, rows |-> rows, columns |-> Len(headers)]

\* for match in self.table_pattern.finditer(content): ... (result.py:246-272)
RECURSIVE ScanTables(_, _)
ScanTables(lines, i) ==
    IF i > Len(lines) THEN <<>>
    ELSE IF TableMatchAt(lines, i)
         THEN LET e == SepEnd(lines, SkipBlank(lines, i + 1))
                  f == BodyEnd(lines, e + 1)
                  headers == SplitCells(lines[i])
                  rows == ParseRows(lines, e + 1, f)
              IN (IF headers # <<>> /\ rows # <<>>
                  THEN <<MakeTable(headers, rows)>> ELSE <<>>)
                 \o ScanTables(lines, f + 1)
         ELSE ScanTables(lines, i + 1)

ExtractTables(lines) == ScanTables(lines, 1)

(***************************************************************************)
(* _extract_code_blocks (result.py:231-244).  code_block_pattern, DOTALL:  *)
(* three backquotes, an optional word, a newline, then lazily everything   *)
(* up to the next three backquotes.  A fence line opens a block when a     *)
(* line follows it; the next fence line closes the block, and the scan     *)
(* goes on after it.  A span <<i, j>> is a match from line i to line j.    *)
(***************************************************************************)
\* the first fence line at or after line i, Len(lines) + 1 when there is none
RECURSIVE NextFence(_, _)
NextFence(lines, i) ==
    IF i > Len(lines) THEN i
    ELSE IF lines[i].k = "fence" THEN i ELSE NextFence(lines, i + 1)

RECURSIVE ScanFences(_, _)
ScanFences(lines, i) ==
    IF NextFence(lines, i) >= Len(lines) THEN <<>>
    ELSE IF NextFence(lines, NextFence(lines, i) + 1) > Len(lines) THEN <<>>
    ELSE <<<<NextFence(lines, i), NextFence(lines, NextFence(lines, i) + 1)>>>>
         \o ScanFences(lines, NextFence(lines, NextFence(lines, i) + 1) + 1)

CodeSpans(lines) == ScanFences(lines, 1)

InCodeSpan(spans, i) == \E k \in 1..Len(spans) : spans[k][1] <= i /\ i <= spans[k][2]

\* str.strip() of a text of whole lines: blank lines at both ends go
RECURSIVE StripLines(_)
StripLines(lines) ==
    IF lines = <<>> THEN lines
    ELSE IF IsBlank(Head(lines)) THEN StripLines(Tail(lines))
    ELSE IF IsBlank(lines[Len(lines)]) THEN StripLines(SubSeq(lines, 1, Len(lines) - 1))
    ELSE lines

\* language = match.group(1) or 'text'; code = match.group(2).strip()
CodeBlock(lines, span) ==
    [language |-> "text", code |-> StripLines(SubSeq(lines, span[1] + 1, span[2] - 1))]

CodeBlocksOf(lines, spans) == [k \in 1..Len(spans) |-> CodeBlock(lines, spans[k])]

ExtractCodeBlocks(lines) == CodeBlocksOf(lines, CodeSpans(lines))

(***************************************************************************)
(* _extract_lists (result.py:177-229): the loop over the lines; open is    *)
(* 'current_list is not None', type and items the current list's fields.   *)
(***************************************************************************)
ListStart == [lists |-> <<>>, open |-> FALSE, type |-> "", items |-> <<>>]

\* {'text': item_text, 'level': len(indent) // 2}
ListItem(line) == [text |-> line.cells[1], level |-> line.lv \div 2]

CurrentList(st) == [type |-> st.type, items |-> st.items]

\* if current_list is None or current_list['type'] != type  (result.py:192, 209)
StartsNewList(st, type) == ~st.open \/ st.type # type

\* the body of a matching branch (result.py:188-201, 205-218)
AddItem(st, type, line) ==
    IF StartsNewList(st, type)
    THEN [lists |-> IF st.open THEN Append(st.lists, CurrentList(st)) ELSE st.lists,
          open |-> TRUE, type |-> type, items |-> <<ListItem(line)>>]
    ELSE [st EXCEPT !.items = Append(@, ListItem(line))]

ClosesList_always(line) == TRUE

\* line.strip() is non-empty  (result.py:221): a non-list line that closes the list
ClosesList(line) == ~IsBlank(line)

\* one iteration of  for line in lines  (result.py:183-223)
ListLine(st, line) ==
    IF UnorderedMatch(line) THEN AddItem(st, "unordered", line)
    ELSE IF OrderedMatch(line) THEN AddItem(st, "ordered", line)
    ELSE IF st.open /\ ClosesList(line)
         THEN [lists |-> Append(st.lists, CurrentList(st)), open |-> FALSE,
               type |-> "", items |-> <<>>]
         ELSE st

RECURSIVE ListLines(_, _, _)
ListLines(lines, i, st) ==
    IF i > Len(lines) THEN st ELSE ListLines(lines, i + 1, ListLine(st, lines[i]))

\* if current_list: lists.append(current_list)  (result.py:226-227)
ListFinish(st) == IF st.open THEN Append(st.lists, CurrentList(st)) ELSE st.lists

ExtractLists(lines) == ListFinish(ListLines(lines, 1, ListStart))

\* _extract_images (result.py:274-287): one image for every image line
ExtractImages(lines) ==
    [k \in 1..Len(SelectSeq(lines, ImageMatch)) |-> [alt_text |-> "i", url |-> "u"]]

(***************************************************************************)
(* _extract_paragraphs (result.py:148-175): the matches of the code block  *)
(* pattern are cut out, pipe rows are blanked (re.sub(r'\|.*\|', '')),     *)
(* list lines are cut out, the text is split on blank lines.  A paragraph  *)
(* is a maximal run of consecutive lines that stay: text lines, image      *)
(* lines and fence lines outside every code block match.                   *)
(***************************************************************************)
ParagraphLine(lines, spans, i) ==
    lines[i].k \in {"text", "img", "fence"} /\ ~InCodeSpan(spans, i)

RECURSIVE ParaRuns(_, _, _, _)
ParaRuns(lines, spans, i, run) ==
    IF i > Len(lines) THEN (IF run = <<>> THEN <<>> ELSE <<run>>)
    ELSE IF ParagraphLine(lines, spans, i)
         THEN ParaRuns(lines, spans, i + 1, Append(run, lines[i]))
         ELSE (IF run = <<>> THEN <<>> ELSE <<run>>) \o ParaRuns(lines, spans, i + 1, <<>>)

ExtractParagraphs(lines) == ParaRuns(lines, CodeSpans(lines), 1, <<>>)

EmptyContent ==
    [paragraphs |-> <<>>, lists |-> <<>>, code_blocks |-> <<>>, tables |-> <<>>,
     images |-> <<>>]

\* _parse_content (result.py:110-146): a key is present exactly when its list
\* is non-empty, so 'tables' in content is  content.tables # <<>> ; the keys
\* 'links' and 'blockquotes' are left out
ParseContent(lines) ==
    IF \A i \in 1..Len(lines) : IsBlank(lines[i]) THEN EmptyContent
    ELSE [paragraphs |-> ExtractParagraphs(lines), lists |-> ExtractLists(lines),
          code_blocks |-> ExtractCodeBlocks(lines), tables |-> ExtractTables(lines),
          images |-> ExtractImages(lines)]

(***************************************************************************)
(* MarkdownToJSONParser.parse: the line loop (result.py:48-91).            *)
(***************************************************************************)
Section(title, level, lines) == [title |-> title, level |-> level, content |-> ParseContent(lines)]

ParseStart == [sections |-> <<>>, has |-> FALSE, title |-> "", level |-> 0, cur |-> <<>>]

ContentAfterHeader_kept(cur) == cur

\* current_content = []  (result.py:73): a header line of any level starts
\* the content anew
ContentAfterHeader(cur) == <<>>

\* one iteration of  for line in lines  (result.py:53-78)
ParseLine(st, line) ==
    IF HeaderMatch(line)
    THEN [sections |-> IF st.has
                       THEN Append(st.sections, Section(st.title, st.level, st.cur))
                       ELSE st.sections,
          has |-> TRUE, title |-> "T", level |-> line.lv, cur |-> ContentAfterHeader(st.cur)]
    ELSE IF ~IsBlank(line) \/ st.cur # <<>>
         THEN [st EXCEPT !.cur = Append(st.cur, line)]
         ELSE st

RECURSIVE ParseLines(_, _, _)
ParseLines(lines, i, st) ==
    IF i > Len(lines) THEN st ELSE ParseLines(lines, i + 1, ParseLine(st, lines[i]))

\* after the loop (result.py:80-91)
ParseFinish(st) ==
    IF st.has THEN Append(st.sections, Section(st.title, st.level, st.cur))
    ELSE IF st.cur # <<>> THEN Append(st.sections, Section("Content", 1, st.cur))
    ELSE st.sections

FlatSections(lines) == ParseFinish(ParseLines(lines, 1, ParseStart))

(***************************************************************************)
(* _create_hierarchy (result.py:325-353).  Sections are objects mutated in *)
(* place; here section i of the flat list is the index i, subs[i] the list *)
(* i's 'subsections' key holds (empty: no key), result the returned list.  *)
(***************************************************************************)
StackTopBlocks_gt(topLevel, level) == topLevel > level

StackTopBlocks_le(topLevel, level) == topLevel <= level

StackTopBlocks_never(topLevel, level) == FALSE

\* the loop condition  stack[-1]['level'] >= level
StackTopBlocks(topLevel, level) == topLevel >= level

\* while stack and stack[-1]['level'] >= level: stack.pop()
RECURSIVE PopStack(_, _, _)
PopStack(sections, stack, level) ==
    IF stack # <<>> /\ StackTopBlocks(sections[Last(stack)].level, level)
    THEN PopStack(sections, Front(stack), level)
    ELSE stack

AttachSection_both(h, stack, i) ==
    IF stack # <<>>
    THEN [h EXCEPT !.subs[Last(stack)] = Append(@, i), !.result = Append(@, i)]
    ELSE [h EXCEPT !.result = Append(@, i)]

\* if stack: parent['subsections'].append(section) else: result.append(section)
AttachSection(h, stack, i) ==
    IF stack # <<>>
    THEN [h EXCEPT !.subs[Last(stack)] = Append(@, i)]
    ELSE [h EXCEPT !.result = Append(@, i)]

\* one iteration of  for section in sections
HierarchyStep(sections, h, i) ==
    LET stack == PopStack(sections, h.stack, sections[i].level)
    IN [AttachSection(h, stack, i) EXCEPT !.stack = Append(stack, i)]

RECURSIVE HierarchyLoop(_, _, _)
HierarchyLoop(sections, h, i) ==
    IF i > Len(sections) THEN h
    ELSE HierarchyLoop(sections, HierarchyStep(sections, h, i), i + 1)

CreateHierarchy(sections) ==
    HierarchyLoop(sections,
                  [result |-> <<>>, stack |-> <<>>, subs |-> [i \in 1..Len(sections) |-> <<>>]],
                  1)

HasBlocks_always(blocks) == TRUE

\* 'tables' in s.get('content', {}) : the key is there when the list is non-empty
HasBlocks(blocks) == blocks # <<>>

\* the 'metadata' object of the returned document (result.py:99-106)
Metadata(sections) ==
    [total_sections |-> Len(sections),
     max_heading_level |-> IF sections # <<>>
                           THEN MaxOf([i \in 1..Len(sections) |-> sections[i].level]) ELSE 0,
     has_tables |-> \E i \in 1..Len(sections) : HasBlocks(sections[i].content.tables),
     has_code_blocks |-> \E i \in 1..Len(sections) : HasBlocks(sections[i].content.code_blocks),
     has_lists |-> \E i \in 1..Len(sections) : HasBlocks(sections[i].content.lists),
     has_images |-> \E i \in 1..Len(sections) : HasBlocks(sections[i].content.images)]

\* not markdown_text or not markdown_text.strip()
IsEmptyText(lines) == \A i \in 1..Len(lines) : IsBlank(lines[i])

EmptyDocument_one ==
    [sections |-> <<>>, top |-> <<>>, subs |-> <<>>, metadata |-> [total_sections |-> 1]]

\* the document returned for an empty text (result.py:40-46)
EmptyDocument == [sections |-> <<>>, top |-> <<>>, subs |-> <<>>, metadata |-> [total_sections |-> 0]]

\* the returned document: the hierarchy and the metadata (result.py:93-108)
Document(sections, h) ==
    [sections |-> sections, top |-> h.result, subs |-> h.subs, metadata |-> Metadata(sections)]

StructuredDocument(sections) == Document(sections, CreateHierarchy(sections))

\* MarkdownToJSONParser.parse: the value of json['document']
Parse(lines) ==
    IF IsEmptyText(lines) THEN EmptyDocument ELSE StructuredDocument(FlatSections(lines))

(***************************************************************************)
(* ConversionResult.extract_data without fields or schema, as extract_csv  *)
(* calls it (result.py:953-1018).  The Ollama service is the environment   *)
(* of the call: reply.state = "down" when is_available() is false (the     *)
(* parser is used), "raises" when the import, the client or the request    *)
(* raises, "nosections" when its JSON has no 'sections' under 'document',  *)
(* "sections" when it has, reply.doc being that document.                  *)
(***************************************************************************)
\* except Exception as e: logger.warning(...)  (result.py:1000-1001): a failure
\* of the Ollama attempt is logged and the parser is used
HandlesOllamaError(state) == state = "raises"

ExtractData(lines, reply) ==
    IF reply.state = "down" \/ HandlesOllamaError(reply.state)
    THEN [format |-> "structured_json", hasSections |-> TRUE, document |-> Parse(lines)]
    ELSE IF reply.state = "raises"
         \* the outer  except Exception  (result.py:1011-1018): the error report
         THEN [format |-> "error", hasSections |-> FALSE, document |-> EmptyDocument]
         ELSE [format |-> "ollama_structured_json", hasSections |-> reply.state = "sections",
               document |-> reply.doc]

\* extract_tables_from_sections (result.py:1047-1054): a section's own tables,
\* then its subsections, for each section of the list in order
RECURSIVE SectionTables(_, _)
SectionTables(d, idxs) ==
    IF idxs = <<>> THEN <<>>
    ELSE d.sections[Head(idxs)].content.tables
         \o SectionTables(d, d.subs[Head(idxs)])
         \o SectionTables(d, Tail(idxs))

\* _extract_markdown_tables_directly (result.py:1108-1135): the same pattern
\* and row parsing, applied to the whole content
ExtractMarkdownTablesDirectly(lines) == ScanTables(lines, 1)

\* csv.writer.writerow: the output is the list of records written, a record
\* the list of its fields (no modelled cell needs quoting)
WriteRow(records, row) == Append(records, row)

RECURSIVE WriteRows(_, _)
WriteRows(records, rows) ==
    IF rows = <<>> THEN records ELSE WriteRows(WriteRow(records, Head(rows)), Tail(rows))

\* headers if present and non-empty, then the rows (result.py:1078-1085, 1097-1104)
WriteTable(records, table) ==
    WriteRows(IF table.headers # <<>> THEN WriteRow(records, table.headers) ELSE records,
              table.rows)

\* f"=== Table {i + 1} ==="
TableTitle(n) == "=== Table " \o ToString(n) \o " ==="

NeedsSeparator_always(i) == TRUE

\* if i > 0  (result.py:1072), i the 0-based position of the table
NeedsSeparator(i) == i > 0

\* writer.writerow([]); writer.writerow([title]); writer.writerow([])
WriteSeparator(records, i) ==
    WriteRow(WriteRow(WriteRow(records, <<>>), <<TableTitle(i + 1)>>), <<>>)

\* for i, table in enumerate(tables)  (result.py:1071-1085), k = i + 1
RECURSIVE WriteAllTables(_, _, _)
WriteAllTables(records, tables, k) ==
    IF k > Len(tables) THEN records
    ELSE WriteAllTables(
             WriteTable(IF NeedsSeparator(k - 1) THEN WriteSeparator(records, k - 1)
                        ELSE records,
                        tables[k]),
             tables, k + 1)

\* the tables the traversal of json_data collects (result.py:1044-1057)
ModelTablesOf(json) ==
    IF json.hasSections THEN SectionTables(json.document, json.document.top) ELSE <<>>

UseRawScan_never(tables) == FALSE

\* if not tables  (result.py:1059)
UseRawScan(tables) == tables = <<>>

\* the collected tables, and whether the raw markdown was scanned for them
\* (result.py:1059-1061)
CollectTables(lines, modelTables) ==
    IF UseRawScan(modelTables)
    THEN [tables |-> ExtractMarkdownTablesDirectly(lines), raw |-> TRUE]
    ELSE [tables |-> modelTables, raw |-> FALSE]

\* tables[table_index] of a Python list of n tables, for -n <= index < n
PyIndex(n, index) == IF index >= 0 THEN index + 1 ELSE n + index + 1

Output(status, records, c) ==
    [status |-> status, records |-> records, tables |-> c.tables, raw |-> c.raw]

\* extract_csv from the collected tables on (result.py:1063-1106); index is
\* table_index, all is include_all_tables.  status "ok": records is the
\* returned CSV; "NoTablesFound" and "OutOfRange": the two ValueErrors;
\* "IndexError": the IndexError of tables[table_index].
ExportTables(c, index, all) ==
    IF c.tables = <<>> THEN Output("NoTablesFound", <<>>, c)
    ELSE IF all THEN Output("ok", WriteAllTables(<<>>, c.tables, 1), c)
    ELSE IF index >= Len(c.tables) THEN Output("OutOfRange", <<>>, c)
    ELSE IF index < -Len(c.tables) THEN Output("IndexError", <<>>, c)
    ELSE Output("ok", WriteTable(<<>>, c.tables[PyIndex(Len(c.tables), index)]), c)

\* extract_csv (result.py:1028-1106)
ExtractCsvResult(lines, index, all, reply) ==
    ExportTables(CollectTables(lines, ModelTablesOf(ExtractData(lines, reply))), index, all)

(***************************************************************************)
(* NeuralDocumentProcessor._organize_table_data (neural_document_processor *)
(* .py:485-514).  table_out is [tf_responses, num_rows, num_cols], an      *)
(* element of tf_responses [row, col, text] (start_row_offset_idx,         *)
(* start_col_offset_idx, and the 'text' key, "" when it is absent);        *)
(* table_data is the list of extracted cell texts.  A grid is a sequence   *)
(* of rows, position p of a Python list being index p + 1.                 *)
(***************************************************************************)
\* [["" for _ in range(num_cols)] for _ in range(num_rows)]
EmptyGrid(num_rows, num_cols) == [r \in 1..num_rows |-> [c \in 1..num_cols |-> ""]]

\* does indexing a Python list of n items with i succeed
ValidIndex(n, i) == -n <= i /\ i < n

CellText_element(data, element, idx) == element.text

\* table_data[idx] if idx < len(table_data) else element.get("text", "")
\* (idx is the 0-based position of the element)
CellText(data, element, idx) == IF idx < Len(data) THEN data[idx + 1] ELSE element.text

\* grid[row][col] = text
PlaceCell(grid, row, col, text) ==
    [grid EXCEPT ![PyIndex(Len(grid), row)][PyIndex(Len(grid[1]), col)] = text]

\* one iteration of  for idx, element in enumerate(tf_responses) ; failed is
\* the IndexError of grid[row][col]
PlaceElement(st, data, element, idx) ==
    IF st.failed THEN st
    ELSE IF ValidIndex(Len(st.grid), element.row)
            /\ ValidIndex(Len(st.grid[1]), element.col)
         THEN [st EXCEPT !.grid = PlaceCell(st.grid, element.row, element.col,
                                            CellText(data, element, idx))]
         ELSE [st EXCEPT !.failed = TRUE]

RECURSIVE PlaceElements(_, _, _, _)
PlaceElements(st, data, elements, k) ==
    IF k > Len(elements) THEN st
    ELSE PlaceElements(PlaceElement(st, data, elements[k], k - 1), data, elements, k + 1)

\* the two returned dictionaries (lines 503-508 and 511-514)
TableResult(st, data, tout) ==
    IF st.failed THEN [type |-> "simple_table", data |-> data]
    ELSE [type |-> "structured_table", grid |-> st.grid,
          num_rows |-> tout.num_rows, num_cols |-> tout.num_cols]

OrganizeTableData(data, tout) ==
    TableResult(PlaceElements([grid |-> EmptyGrid(tout.num_rows, tout.num_cols),
                               failed |-> FALSE],
                              data, tout.tf_responses, 1),
                data, tout)

(***************************************************************************)
(* MarkdownToHTMLConverter (result.py:356-686).  Every pass works on the   *)
(* text it is given, line by line, and returns the rewritten text, so the  *)
(* text between two passes is a sequence of lines as well.  Such a line is *)
(* a markdown line with two more fields:                                   *)
(*   code  where the line stands in a rewritten code block: "" outside,    *)
(*         "first" behind "<pre><code>", "last" before "</code></pre>",    *)
(*         "only" between the two, "mid" on a body line between them; the  *)
(*         text of such a line has been HTML-escaped                       *)
(*   tag   "" on a line of markdown; on a line of HTML (k = "html") the    *)
(*         tag it begins with: "table", "thead" for "<thead><tr>", "th",   *)
(*         "/thead" for "</tr></thead>", "tbody", "tr", "td", "/tr",       *)
(*         "/tbody", "/table", "blockquote", "/blockquote" for the line    *)
(*         "</blockquote>" ends, "h", "ul", "ol", "li", "/ul", "/ol"; on   *)
(*         an image line "a" once the link rule has rewritten it           *)
(* A line k = "quote" is the blockquote line "> q".                        *)
(***************************************************************************)
QuoteLine == [k |-> "quote", lv |-> 0, cells |-> <<>>]

Markdown(line) == [k |-> line.k, lv |-> line.lv, cells |-> line.cells, code |-> "", tag |-> ""]
MarkdownLines(lines) == [i \in 1..Len(lines) |-> Markdown(lines[i])]
Html(tag, lv, cells, code) == [k |-> "html", lv |-> lv, cells |-> cells, code |-> code, tag |-> tag]
Tag(tag) == Html(tag, 0, <<>>, "")

\* the line begins with "<pre><code>"
Opened(h) == h.code \in {"first", "only"}
\* the line ends with "</code></pre>"
Closed(h) == h.code \in {"last", "only"}

\* line.strip() == '' on a line between two passes
BlankMatch(h) == h.k = "blank" /\ h.code \in {"", "mid"}

\* where line i of k..n stands in a code block whose body is lines k..n
CodePosition(i, k, n) ==
    IF k = n THEN "only" ELSE IF i = k THEN "first" ELSE IF i = n THEN "last" ELSE "mid"

(***************************************************************************)
(* _process_code_blocks (result.py:410-447).  The fenced pattern needs a   *)
(* newline before the closing fence, so the fence that closes the block    *)
(* opened on line a is the first at or after line a + 2.  The match, from  *)
(* the opening to the closing fence, is replaced by its escaped body       *)
(* between "<pre><code>" and "</code></pre>": the fence lines go, the body *)
(* lines stay lines of the text.                                           *)
(***************************************************************************)
RECURSIVE FencedSpans(_, _)
FencedSpans(lines, i) ==
    IF NextFence(lines, NextFence(lines, i) + 2) > Len(lines) THEN <<>>
    ELSE <<<<NextFence(lines, i), NextFence(lines, NextFence(lines, i) + 2)>>>>
         \o FencedSpans(lines, NextFence(lines, NextFence(lines, i) + 2) + 1)

SpanOf(spans, i) == spans[CHOOSE k \in 1..Len(spans) : spans[k][1] <= i /\ i <= spans[k][2]]

\* replace_code_block, for the body line i of the match span
CodeLine(line, i, span) == [line EXCEPT !.code = CodePosition(i, span[1] + 1, span[2] - 1)]

RECURSIVE ReplaceFenced(_, _, _)
ReplaceFenced(lines, spans, i) ==
    IF i > Len(lines) THEN <<>>
    ELSE IF ~InCodeSpan(spans, i) THEN <<lines[i]>> \o ReplaceFenced(lines, spans, i + 1)
    ELSE IF i \in {SpanOf(spans, i)[1], SpanOf(spans, i)[2]}
         THEN ReplaceFenced(lines, spans, i + 1)
         ELSE <<CodeLine(lines[i], i, SpanOf(spans, i))>> \o ReplaceFenced(lines, spans, i + 1)

\* line.startswith('    '): of the lines here, a list line indented by four
\* blanks or more, unless "<pre><code>" stands before it
IndentedMatch(h) == h.k \in {"ul", "ol"} /\ h.lv >= 4 /\ ~Opened(h)

\* a run of indented lines i..n-1: each lstripped, the run joined, escaped and
\* put between "<pre><code>" and "</code></pre>"
IndentedBlock(lines, i, n) ==
    [j \in 1..(n - i) |->
        [lines[i + j - 1] EXCEPT !.lv = 0, !.code = CodePosition(i + j - 1, i, n - 1)]]

\* the first line at or after line i that does not start with four blanks or
\* a tab (result.py:427-441): the end of the run of code lines
IndentedRunEnd(lines, i) ==
    CHOOSE n \in i..(Len(lines) + 1) :
        /\ \A j \in i..(n - 1) : IndentedMatch(lines[j])
        /\ n <= Len(lines) => ~IndentedMatch(lines[n])

RECURSIVE ReplaceIndented(_, _)
ReplaceIndented(lines, i) ==
    IF i > Len(lines) THEN <<>>
    ELSE IF IndentedMatch(lines[i])
         THEN IndentedBlock(lines, i, IndentedRunEnd(lines, i))
              \o ReplaceIndented(lines, IndentedRunEnd(lines, i))
         ELSE <<lines[i]>> \o ReplaceIndented(lines, i + 1)

ProcessCodeBlocks(lines) ==
    ReplaceIndented(ReplaceFenced(lines, FencedSpans(lines, 1), 1), 1)

(***************************************************************************)
(* _process_tables and _convert_table_to_html (result.py:449-508).  The    *)
(* cursor i is the code's i + 1.  The pass returns the rewritten lines, or *)
(* raises: status is "ok" or the name of the exception.                    *)
(***************************************************************************)
\* '|' in line
HasPipe(h) == h.k = "row"

\* re.match(r'^\s*\|[\s\-:|]+\|\s*$', next_line): the whole line is a row of
\* dashes, blanks and pipes
SeparatorMatch(h) == SepLike(h) /\ ~Opened(h) /\ ~Closed(h)

HasNextLine_always(lines, i) == TRUE

\* i + 1 < len(lines)  (result.py:459)
HasNextLine(lines, i) == i + 1 <= Len(lines)

\* [cell.strip() for cell in line.split('|')[1:-1]], one element for each cell
TableCells(tag, h) == [c \in 1..Len(h.cells) |-> Html(tag, 0, <<h.cells[c]>>, "")]

RECURSIVE BodyRows(_)
BodyRows(rows) ==
    IF rows = <<>> THEN <<>>
    ELSE <<Tag("tr")>> \o TableCells("td", Head(rows)) \o <<Tag("/tr")>> \o BodyRows(Tail(rows))

ConvertTableToHtml(table_lines) ==
    IF Len(table_lines) < 2
    THEN (IF table_lines = <<>> THEN <<Markdown(BlankLine)>> ELSE <<table_lines[1]>>)
    ELSE <<Tag("table"), Tag("thead")>> \o TableCells("th", table_lines[1])
         \o <<Tag("/thead"), Tag("tbody")>>
         \o BodyRows(SubSeq(table_lines, 3, Len(table_lines)))
         \o <<Tag("/tbody"), Tag("/table")>>

Returned(lines) == [status |-> "ok", lines |-> lines]
Raised(exception) == [status |-> exception, lines |-> <<>>]

\* while i < len(lines) and '|' in lines[i]  (result.py:468-470): the first
\* line at or after line i without a pipe
TableRunEnd(lines, i) ==
    CHOOSE n \in i..(Len(lines) + 1) :
        /\ \A j \in i..(n - 1) : HasPipe(lines[j])
        /\ n <= Len(lines) => ~HasPipe(lines[n])

RECURSIVE TableLoop(_, _, _)
TableLoop(lines, i, result_lines) ==
    IF i > Len(lines) THEN Returned(result_lines)
    ELSE IF HasPipe(lines[i]) /\ HasNextLine(lines, i)
         THEN IF i + 1 > Len(lines) THEN Raised("IndexError")     \* lines[i + 1]
              ELSE IF HasPipe(lines[i + 1]) /\ SeparatorMatch(lines[i + 1])
                   THEN TableLoop(lines, TableRunEnd(lines, i + 1),
                                  result_lines
                                  \o ConvertTableToHtml(
                                         SubSeq(lines, i, TableRunEnd(lines, i + 1) - 1)))
                   ELSE TableLoop(lines, i + 1, Append(result_lines, lines[i]))
         ELSE TableLoop(lines, i + 1, Append(result_lines, lines[i]))

ProcessTables(lines) == TableLoop(lines, 1, <<>>)

\* _process_horizontal_rules (result.py:510-512): ^---+$ matches a line made of
\* three or more dashes; no line here is one
ProcessHorizontalRules(lines) == lines

(***************************************************************************)
(* _process_blockquotes (result.py:514-546).  A blockquote line and the    *)
(* blockquote and blank lines after it become one element whose lines are  *)
(* joined by newlines: "<blockquote>" stands before the first, the others  *)
(* are the quoted texts and blank lines, "</blockquote>" ends the last.    *)
(***************************************************************************)
\* line.startswith('> '); an escaped line begins with "&gt;"
QuoteMatch(h) == h.k = "quote" /\ h.code = ""

QuoteOrBlank(h) == QuoteMatch(h) \/ BlankMatch(h)

QuotedLine(h) == IF QuoteMatch(h) THEN Markdown(TextLine) ELSE Markdown(BlankLine)

BlockquoteHtml(quote_lines) ==
    IF Len(quote_lines) = 1 THEN <<Tag("blockquote")>>
    ELSE <<Tag("blockquote")>>
         \o [j \in 1..(Len(quote_lines) - 2) |-> QuotedLine(quote_lines[j + 1])]
         \o <<Html("/blockquote", 0,
                   IF QuoteMatch(Last(quote_lines)) THEN <<"q">> ELSE <<>>, "")>>

\* the inner while of _process_blockquotes (result.py:529-534): the first line
\* at or after line i that is neither a quote line nor blank
QuoteRunEnd(lines, i) ==
    CHOOSE n \in i..(Len(lines) + 1) :
        /\ \A j \in i..(n - 1) : QuoteOrBlank(lines[j])
        /\ n <= Len(lines) => ~QuoteOrBlank(lines[n])

RECURSIVE BlockquoteLoop(_, _, _)
BlockquoteLoop(lines, i, result_lines) ==
    IF i > Len(lines) THEN result_lines
    ELSE IF QuoteMatch(lines[i])
         THEN BlockquoteLoop(lines, QuoteRunEnd(lines, i + 1),
                             result_lines
                             \o BlockquoteHtml(
                                    SubSeq(lines, i, QuoteRunEnd(lines, i + 1) - 1)))
         ELSE BlockquoteLoop(lines, i + 1, Append(result_lines, lines[i]))

ProcessBlockquotes(lines) == BlockquoteLoop(lines, 1, <<>>)

(***************************************************************************)
(* _process_headers (result.py:548-555): header_pattern, MULTILINE, is     *)
(* replaced on every line it matches; the title runs to the end of the     *)
(* line, over a "</code></pre>" that ends it.                              *)
(***************************************************************************)
HeaderLineMatch(h) == h.k = "hdr" /\ h.lv \in 1..6 /\ ~Opened(h)

ReplaceHeader(h) == IF HeaderLineMatch(h) THEN Html("h", h.lv, <<>>, h.code) ELSE h

ProcessHeaders(lines) == [i \in 1..Len(lines) |-> ReplaceHeader(lines[i])]

(***************************************************************************)
(* _process_lists, _collect_list_items, _convert_list_to_html              *)
(* (result.py:557-625); list_type is "ul" or "ol".                         *)
(***************************************************************************)
\* re.match(r'^[\s]*[-*+]\s+', line), re.match(r'^[\s]*\d+\.\s+', line)
ListMatch(h, list_type) == h.k = list_type /\ ~Opened(h)

CollectListItems_stuck(lines, i, list_type) == i

\* the index after the last collected line: the lines that match the pattern
\* or are blank, from line i on
RECURSIVE CollectListItems(_, _, _)
CollectListItems(lines, i, list_type) ==
    IF i > Len(lines) THEN i
    ELSE IF ListMatch(lines[i], list_type) \/ BlankMatch(lines[i])
         THEN CollectListItems(lines, i + 1, list_type)
         ELSE i

RECURSIVE ListItems(_)
ListItems(list_lines) ==
    IF list_lines = <<>> THEN <<>>
    ELSE IF BlankMatch(Head(list_lines)) THEN ListItems(Tail(list_lines))
    ELSE <<Html("li", 0, Head(list_lines).cells, Head(list_lines).code)>>
         \o ListItems(Tail(list_lines))

ConvertListToHtml(list_lines, list_type) ==
    <<Tag(list_type)>> \o ListItems(list_lines)
    \o <<Tag(IF list_type = "ul" THEN "/ul" ELSE "/ol")>>

ListTypeOf(h) ==
    IF ListMatch(h, "ul") THEN "ul" ELSE IF ListMatch(h, "ol") THEN "ol" ELSE ""

RECURSIVE ListLoop(_, _, _)
ListLoop(lines, i, result_lines) ==
    IF i > Len(lines) THEN result_lines
    ELSE IF ListTypeOf(lines[i]) # ""
         THEN ListLoop(lines, CollectListItems(lines, i, ListTypeOf(lines[i])),
                       result_lines
                       \o ConvertListToHtml(
                              SubSeq(lines, i,
                                     CollectListItems(lines, i, ListTypeOf(lines[i])) - 1),
                              ListTypeOf(lines[i])))
         ELSE ListLoop(lines, i + 1, Append(result_lines, lines[i]))

ProcessLists(lines) == ListLoop(lines, 1, <<>>)

(***************************************************************************)
(* _process_inline_elements (result.py:627-646), on the whole text.  Of    *)
(* the lines here it rewrites the image line "![i](u)", on which the link  *)
(* rule and then the image rule are substituted (tag "" while the markdown *)
(* of the image is intact, then the tag put in its place).  The inline     *)
(* code rule puts code tags among the backquotes of a fence line that is   *)
(* left, which stays a line of the text that begins with no block tag.     *)
(***************************************************************************)
\* link_pattern.sub(r'<a href="\2">\1</a>', text)  (result.py:641): the pattern
\* \[([^\]]+)\]\(([^)]+)\) matches "[i](u)" behind the "!" of an image
LinkRule(h) == IF h.k = "img" /\ h.tag = "" THEN [h EXCEPT !.tag = "a"] ELSE h

\* image_pattern.sub(r'<img src="\2" alt="\1">', text)  (result.py:644): the
\* pattern matches "![i](u)" where it still stands
ImageRule(h) == IF h.k = "img" /\ h.tag = "" THEN [h EXCEPT !.tag = "img"] ELSE h

InlineLine(h) == ImageRule(LinkRule(h))

ProcessInlineElements(lines) == [i \in 1..Len(lines) |-> InlineLine(lines[i])]

(***************************************************************************)
(* _process_paragraphs (result.py:648-678).  The returned text is a        *)
(* sequence of elements [p, lines]: a line put out as it is (p = FALSE,    *)
(* one line) or a paragraph "<p>...</p>" of the lines joined in it.        *)
(***************************************************************************)
\* re.match(r'^<(h[1-6]|p|div|blockquote|pre|table|ul|ol|li|hr)', line.strip())
BlockMatch(h) ==
    \/ Opened(h)
    \/ h.k = "html" /\ h.tag \in {"h", "blockquote", "table", "ul", "ol", "li"}

ParagraphStart == [result_lines |-> <<>>, current_paragraph |-> <<>>]

\* if current_paragraph: result_lines.append('<p>...</p>')
FlushParagraph(st) ==
    IF st.current_paragraph = <<>> THEN st.result_lines
    ELSE Append(st.result_lines, [p |-> TRUE, lines |-> st.current_paragraph])

\* one iteration of  for line in lines  (result.py:654-671)
ParagraphLineStep(st, h) ==
    IF BlankMatch(h)
    THEN [result_lines |-> FlushParagraph(st), current_paragraph |-> <<>>]
    ELSE IF BlockMatch(h)
         THEN [result_lines |-> Append(FlushParagraph(st), [p |-> FALSE, lines |-> <<h>>]),
               current_paragraph |-> <<>>]
         ELSE [st EXCEPT !.current_paragraph = Append(@, h)]

RECURSIVE ParagraphLoop(_, _, _)
ParagraphLoop(lines, i, st) ==
    IF i > Len(lines) THEN st
    ELSE ParagraphLoop(lines, i + 1, ParagraphLineStep(st, lines[i]))

ProcessParagraphs(lines) == FlushParagraph(ParagraphLoop(lines, 1, ParagraphStart))

(***************************************************************************)
(* MarkdownToHTMLConverter.extract (result.py:373-408): the passes in the  *)
(* order of the code.  pass is the number of passes done, html the local   *)
(* variable of that name; an exception raised in a pass leaves extract.    *)
(***************************************************************************)
NumPasses == 8

ExtractStart(lines) == [pass |-> 0, status |-> "ok", html |-> MarkdownLines(lines)]

AfterTables(fr, res) ==
    [pass |-> fr.pass + 1, status |-> res.status,
     html |-> IF res.status = "ok" THEN res.lines ELSE fr.html]

ExtractPass(fr) ==
    IF fr.pass = 1 THEN AfterTables(fr, ProcessTables(fr.html))
    ELSE [fr EXCEPT !.pass = @ + 1,
                    !.html = CASE fr.pass = 0 -> ProcessCodeBlocks(fr.html)
                               [] fr.pass = 2 -> ProcessHorizontalRules(fr.html)
                               [] fr.pass = 3 -> ProcessBlockquotes(fr.html)
                               [] fr.pass = 4 -> ProcessHeaders(fr.html)
                               [] fr.pass = 5 -> ProcessLists(fr.html)
                               [] fr.pass = 6 -> ProcessInlineElements(fr.html)
                               [] fr.pass = 7 -> ProcessParagraphs(fr.html)]

ExtractDone(fr) == fr.pass = NumPasses \/ fr.status # "ok"

RECURSIVE ExtractPasses(_)
ExtractPasses(fr) == IF ExtractDone(fr) THEN fr ELSE ExtractPasses(ExtractPass(fr))

\* what extract returns or raises: status and, when it returned, the text
ExtractResult(fr) == [status |-> fr.status, html |-> IF fr.status = "ok" THEN fr.html ELSE <<>>]

Extract(lines) == ExtractResult(ExtractPasses(ExtractStart(lines)))

(***************************************************************************)
(* The checked inputs: bounded families of markdown texts.                 *)
(***************************************************************************)
\* header lines of every level and text lines
HeaderAlphabet == {HdrLine(l) : l \in 1..MaxLevel} \cup {TextLine}
HeaderDocs == NonEmptySeqUpTo(HeaderAlphabet, MaxHeaderLines)

\* pipe rows: full rows, a row of dashes, a short row, a row with an empty
\* cell, a row of empty cells, a long row; with text and blank lines
RowCells ==
    {<<"x", "y">>, <<"y", "x">>, <<"-", "-">>, <<"x">>, <<"", "y">>, <<"", "">>,
     <<"x", "y", "x">>}
TableAlphabet == {RowLine(cs) : cs \in RowCells} \cup {TextLine, BlankLine}
LineDocs == NonEmptySeqUpTo(TableAlphabet, MaxTableLines)

\* whole tables (header row, separator row, body rows) among other lines;
\* the first is followed by a text line, which ends the table
TableBlock(h, body) ==
    <<RowLine(h), RowLine([i \in 1..Len(h) |-> "-"])>> \o [i \in 1..Len(body) |-> RowLine(body[i])]
BlockSet ==
    {TableBlock(<<"x", "y">>, <<<<"y", "x">>>>) \o <<TextLine>>,
     TableBlock(<<"y", "x">>, <<<<"-", "-">>, <<"x", "x">>>>),
     TableBlock(<<"x", "x">>, <<<<"-", "-">>>>),
     <<TextLine>>, <<BlankLine>>, <<HdrLine(1)>>, <<HdrLine(2)>>}
BlockDocs == {Concat(bs) : bs \in NonEmptySeqUpTo(BlockSet, MaxBlocks)}

TableDocs == LineDocs \cup BlockDocs

\* list lines of both marker kinds, flush and indented, among text, blank and
\* header lines
ListAlphabet ==
    {UnorderedLine(0, "a"), UnorderedLine(0, "b"), UnorderedLine(2, "b"),
     OrderedLine(0, "c"), OrderedLine(2, "a"), TextLine, BlankLine, HdrLine(1)}
ListDocs == NonEmptySeqUpTo(ListAlphabet, MaxListLines)

\* blocks of every kind under headers of two levels: a paragraph, a list
\* line, an image, a closed code block, a lone code fence, a table
MixedBlockSet ==
    {<<HdrLine(1)>>, <<HdrLine(2)>>, <<TextLine>>, <<BlankLine>>, <<UnorderedLine(0, "a")>>,
     <<ImageLine>>, <<FenceLine, TextLine, FenceLine>>, <<FenceLine>>,
     TableBlock(<<"x">>, <<<<"y">>>>)}
MixedDocs == {Concat(bs) : bs \in NonEmptySeqUpTo(MixedBlockSet, MaxMixedBlocks)}

\* lines of every kind, in any order: unterminated code fences, pipe rows
\* without separator or body, list lines of both kinds, flush and indented
\* by four blanks, blockquote lines
RenderAlphabet ==
    {HdrLine(1), TextLine, BlankLine, RowLine(<<"x", "y">>), RowLine(<<"-", "-">>),
     UnorderedLine(0, "a"), UnorderedLine(4, "a"), OrderedLine(0, "c"), FenceLine, ImageLine,
     QuoteLine}
RenderDocs == NonEmptySeqUpTo(RenderAlphabet, MaxRenderLines)

\* a fenced code block: lines of every kind but a fence between two fences
FencedDocs ==
    {<<FenceLine>> \o body \o <<FenceLine>> :
        body \in NonEmptySeqUpTo(RenderAlphabet \ {FenceLine}, MaxCodeLines)}

\* the texts of concurrent calls
ConcAlphabet == {HdrLine(1), TextLine, BlankLine}
ConcDocs == NonEmptySeqUpTo(ConcAlphabet, MaxConcLines)

\* what the Ollama service can answer a call
OllamaDown == [state |-> "down", doc |-> EmptyDocument]
OllamaUp ==
    {[state |-> "nosections", doc |-> EmptyDocument]}
    \cup {[state |-> "sections", doc |-> Parse(d)] :
             d \in {<<TextLine>>, TableBlock(<<"x">>, <<<<"y">>>>)}}
OllamaRaises == [state |-> "raises", doc |-> EmptyDocument]
OllamaReplies(lines) ==
    IF Len(lines) <= MaxOllamaLines THEN {OllamaDown, OllamaRaises} \cup OllamaUp
    ELSE {OllamaDown}

\* table structure outputs: grids of two shapes, up to MaxCells predictions
\* with row and column indices in and out of range, with and without a text
\* of their own; and the extracted texts of the first predictions
GridShapes == {<<2, 2>>, <<1, 2>>}
Elements == [row : -1..2, col : 0..2, text : {"", "Z"}]
TableOuts ==
    {[tf_responses |-> es, num_rows |-> sh[1], num_cols |-> sh[2]] :
        es \in SeqUpTo(Elements, MaxCells), sh \in GridShapes}
TableDatas(tout) == SeqUpTo({"X", "Y"}, Len(tout.tf_responses))

NoTableOut == [tf_responses |-> <<>>, num_rows |-> 0, num_cols |-> 0]
NoTable == [type |-> "none"]

NoRequest == [index |-> 0, all |-> FALSE, reply |-> OllamaDown]
NoOutput == [status |-> "none", records |-> <<>>, tables |-> <<>>, raw |-> FALSE]
NoJson == [format |-> "none", hasSections |-> FALSE, document |-> EmptyDocument]
NoHtml == [status |-> "none", html |-> <<>>]

(***************************************************************************)
(* Concurrent calls.  A MarkdownToJSONParser and a MarkdownToHTMLConverter *)
(* hold the compiled patterns their __init__ assigns (result.py:19-29,     *)
(* 362-371) and nothing else; parse and extract assign no attribute.  The  *)
(* state a call works on is its local variables, its frame: the lines of   *)
(* its argument, the position of its loop, sections / current_section /    *)
(* current_content (st) in parse, html (fr) in extract.                    *)
(***************************************************************************)
CallIds == {1, 2}
Methods == {"parse", "extract"}

NoResult == [doc |-> EmptyDocument, html |-> NoHtml]
NewCall(method, arg) ==
    [method |-> method, arg |-> arg, pc |-> "ready", overlapped |-> FALSE, result |-> NoResult]
NoCalls == [c \in CallIds |-> NewCall("parse", <<BlankLine>>)]

NoFrame == [lines |-> <<>>, at |-> 0, st |-> ParseStart, fr |-> ExtractStart(<<>>)]
NoFrames == [c \in CallIds |-> NoFrame]

\* the frame of a call that enters parse (result.py:48-51) or extract
\* (result.py:382)
StartFrame(arg) == [lines |-> arg, at |-> 1, st |-> ParseStart, fr |-> ExtractStart(arg)]

FrameOf_shared(c) == 1

\* the frame call c reads and writes: local variables belong to the call
FrameOf(c) == c

(***************************************************************************)
(* NeuralDocumentProcessor._extract_text_with_layout_advanced              *)
(* (neural_document_processor.py:309-396): the layout model's predictions  *)
(* are classified into text blocks and table blocks, the table blocks go   *)
(* through the table structure model, and blocks and tables are merged     *)
(* into the page markdown.  A prediction is [label, bbox, text, answer]:   *)
(* bbox is <<l, t, r, b>>, text what OCR reads in the region (a            *)
(* prediction of low confidence is one without text), answer what the      *)
(* table structure model and the OCR of the cells give for the region      *)
(* when it is a table: [raises, table_out, table_data].  The page markdown *)
(* is a sequence of lines [k, lv, cells], the texts in cells.              *)
(***************************************************************************)
\* text.strip(), for the texts of the model
Strip(text) == IF text = " " THEN "" ELSE text

\* the element type of a label that is not a table's (lines 351-383)
ElementType(label) ==
    IF label \in {"title", "section_header", "subtitle_level_1"} THEN "heading"
    ELSE IF label = "list_item" THEN "list_item"
    ELSE "paragraph"

\* LayoutElement(text=region_text, x=bbox[0], y=bbox[1], ...)
LayoutElement(pred) ==
    [text |-> pred.text, x |-> pred.bbox[1], y |-> pred.bbox[2],
     width |-> pred.bbox[3] - pred.bbox[1], height |-> pred.bbox[4] - pred.bbox[2],
     element_type |-> ElementType(pred.label)]

\* the dictionary appended to table_blocks (lines 345-350), with the answer
\* the region will get
TableRegion(pred) == [text |-> pred.text, bbox |-> pred.bbox, answer |-> pred.answer]

\* if not region_text or pred.get('confidence', 1.0) < 0.5: continue
KeptPrediction(pred) == pred.text # ""

IsTableLabel(label) == label \in {"table", "document_index"}

\* key=lambda x: (x.y, x.x): does a sort before b
Before(a, b) == a.y < b.y \/ (a.y = b.y /\ a.x < b.x)

\* list.sort is stable: e goes behind every element that does not sort
\* after it
InsertByPosition(s, e) ==
    LET n == Cardinality({i \in 1..Len(s) : ~Before(e, s[i])})
    IN SubSeq(s, 1, n) \o <<e>> \o SubSeq(s, n + 1, Len(s))

SortByPosition_unsorted(s) == s

\* s.sort(key=lambda x: (x.y, x.x))  (lines 386 and 577)
RECURSIVE SortByPosition(_)
SortByPosition(s) ==
    IF s = <<>> THEN <<>> ELSE InsertByPosition(SortByPosition(Front(s)), Last(s))

\* the loop over layout_results (lines 322-383) and the sort of text_blocks
ClassifyBlocks(layout_results) ==
    LET kept == SelectSeq(layout_results, KeptPrediction)
        tables == SelectSeq(kept, LAMBDA p : IsTableLabel(p.label))
        texts == SelectSeq(kept, LAMBDA p : ~IsTableLabel(p.label))
    IN [text_blocks |-> SortByPosition([i \in 1..Len(texts) |-> LayoutElement(texts[i])]),
        table_blocks |-> [i \in 1..Len(tables) |-> TableRegion(tables[i])]]

\* processed_table['bbox'] = table_block['bbox']
WithBbox(table, bbox) ==
    [f \in DOMAIN table \cup {"bbox"} |-> IF f = "bbox" THEN bbox ELSE table[f]]

\* the fallback of the except branch (lines 463-468)
SimpleTableFallback(table_block) ==
    [type |-> "simple_table", text |-> table_block.text, bbox |-> table_block.bbox]

\* except Exception  (line 460) around the processing of one table block:
\* is the exception of the structure model caught
HandlesTableError(table_block) == table_block.answer.raises

\* one iteration of  for table_block in table_blocks  (lines 402-468);
\* "raised" is the exception leaving the method
ProcessTableBlock(st, table_block) ==
    IF st.raised THEN st
    ELSE IF HandlesTableError(table_block)
         THEN [st EXCEPT !.tables = Append(@, SimpleTableFallback(table_block))]
    ELSE IF table_block.answer.raises THEN [st EXCEPT !.raised = TRUE]
         ELSE [st EXCEPT !.tables =
                  Append(@, WithBbox(OrganizeTableData(table_block.answer.table_data,
                                                       table_block.answer.table_out),
                                     table_block.bbox))]

RECURSIVE ProcessTableBlocks(_, _, _)
ProcessTableBlocks(st, table_blocks, k) ==
    IF k > Len(table_blocks) THEN st
    ELSE ProcessTableBlocks(ProcessTableBlock(st, table_blocks[k]), table_blocks, k + 1)

\* _process_tables_with_structure_model (lines 398-470)
ProcessTablesWithStructureModel(table_blocks) ==
    ProcessTableBlocks([tables |-> <<>>, raised |-> FALSE], table_blocks, 1)

\* table.get('text', '')
TableText(table) == IF "text" \in DOMAIN table THEN table.text ELSE ""

\* f"**Table:** {table.get('text', '')}"
SimpleTableLine(table) == [k |-> "text", lv |-> 0, cells |-> <<"**Table:**", TableText(table)>>]

\* [cell.strip() if cell else "" for cell in row]
StripCells(row) == [c \in 1..Len(row) |-> Strip(row[c])]

\* the rows of the grid that hold a non-blank cell
NonEmptyRows(grid) ==
    {r \in 1..Len(grid) : \E c \in 1..Len(grid[r]) : Strip(grid[r][c]) # ""}

\* _convert_table_to_markdown (lines 516-547): the lines of the returned
\* string, the empty string being one empty line
ConvertTableToMarkdown(table) ==
    IF table.type # "structured_table" THEN <<SimpleTableLine(table)>>
    ELSE IF table.grid = <<>> \/ table.grid[1] = <<>> THEN <<BlankLine>>
    ELSE IF NonEmptyRows(table.grid) = {} THEN <<BlankLine>>
    ELSE LET header == CHOOSE r \in NonEmptyRows(table.grid) :
                           \A q \in NonEmptyRows(table.grid) : r <= q
         IN <<RowLine(StripCells(table.grid[header])),
              RowLine([c \in 1..Len(table.grid[header]) |-> "-"])>>
            \o [r \in 1..(Len(table.grid) - header) |->
                   RowLine(StripCells(table.grid[header + r]))]

\* _determine_heading_level (lines 612-620)
DetermineHeadingLevel(block) ==
    IF block.y < 100 THEN 1 ELSE IF block.height > 30 THEN 2 ELSE 3

\* the dictionaries of all_elements (lines 557-573)
TextElement(block) == [type |-> "text", element |-> block, y |-> block.y, x |-> block.x]
TableElement(table) ==
    [type |-> "table", element |-> table, y |-> table.bbox[2], x |-> table.bbox[1]]

\* if 'bbox' in table  (line 566)
TablesWithBbox(processed_tables) == SelectSeq(processed_tables, LAMBDA t : "bbox" \in DOMAIN t)

TableElements(tables) == [i \in 1..Len(tables) |-> TableElement(tables[i])]

\* all_elements before the sort: the text blocks, then the tables that have
\* a bbox
AllElements(text_blocks, processed_tables) ==
    [i \in 1..Len(text_blocks) |-> TextElement(text_blocks[i])]
    \o TableElements(TablesWithBbox(processed_tables))

\* what one element appends to markdown_parts (lines 580-609), as lines
ElementMarkdown(element) ==
    IF element.type = "text"
    THEN IF Strip(element.element.text) = "" THEN <<>>
         ELSE IF element.element.element_type = "heading"
              THEN <<[k |-> "hdr", lv |-> DetermineHeadingLevel(element.element),
                      cells |-> <<Strip(element.element.text)>>], BlankLine>>
         ELSE IF element.element.element_type = "list_item"
              THEN <<UnorderedLine(0, Strip(element.element.text))>>
         ELSE <<[k |-> "text", lv |-> 0, cells |-> <<Strip(element.element.text)>>], BlankLine>>
    ELSE IF element.element.type = "structured_table"
         THEN ConvertTableToMarkdown(element.element) \o <<BlankLine>>
         ELSE <<SimpleTableLine(element.element), BlankLine>>

\* _convert_to_structured_markdown_advanced (lines 549-610): the lines of
\* '\n'.join(markdown_parts)
MarkdownOfElements(all_elements) ==
    Concat([i \in 1..Len(all_elements) |-> ElementMarkdown(all_elements[i])])

ConvertToStructuredMarkdownAdvanced(text_blocks, processed_tables) ==
    MarkdownOfElements(SortByPosition(AllElements(text_blocks, processed_tables)))

\* the pages checked: up to MaxPageBlocks predictions in any order.  The
\* i-th prediction has a text of its own (so that a line of the page
\* markdown tells which prediction it comes from), or, a text region, a
\* blank text or none; a region lies at one of three origins, two on one
\* line and one below
PageTexts == <<"a", "b", "c", "d">>
PageOrigins == {<<10, 10>>, <<20, 10>>, <<10, 120>>}

\* what the table structure model answers for a table region with text t:
\* it raises; a 2 x 2 structure with cells (0, 0) and (1, 1); the same with
\* a cell in row 2, outside the grid; a 1 x 2 structure without cells
StructureAnswers(t) ==
    {[raises |-> TRUE, table_out |-> NoTableOut, table_data |-> <<>>],
     [raises |-> FALSE,
      table_out |-> [tf_responses |-> <<[row |-> 0, col |-> 0, text |-> ""],
                                        [row |-> 1, col |-> 1, text |-> ""]>>,
                     num_rows |-> 2, num_cols |-> 2],
      table_data |-> <<t, "Y">>],
     [raises |-> FALSE,
      table_out |-> [tf_responses |-> <<[row |-> 0, col |-> 0, text |-> ""],
                                        [row |-> 2, col |-> 0, text |-> ""]>>,
                     num_rows |-> 2, num_cols |-> 2],
      table_data |-> <<t, "Y">>],
     [raises |-> FALSE,
      table_out |-> [tf_responses |-> <<>>, num_rows |-> 1, num_cols |-> 2],
      table_data |-> <<>>]}

NoAnswer == [raises |-> FALSE, table_out |-> NoTableOut, table_data |-> <<>>]

Prediction(label, origin, text, answer) ==
    [label |-> label, bbox |-> <<origin[1], origin[2], origin[1] + 50, origin[2] + 20>>,
     text |-> text, answer |-> answer]

\* the predictions that can stand at position i of layout_results
PredictionsOf(i) ==
    {Prediction(label, origin, PageTexts[i], NoAnswer) :
        label \in {"title", "list_item", "text"}, origin \in PageOrigins}
    \cup {Prediction("text", <<10, 10>>, text, NoAnswer) : text \in {" ", ""}}
    \cup {Prediction("table", origin, PageTexts[i], answer) :
            origin \in PageOrigins, answer \in StructureAnswers(PageTexts[i])}

RECURSIVE LayoutsOfLen(_)
LayoutsOfLen(n) ==
    IF n = 0 THEN {<<>>}
    ELSE {Append(s, pred) : s \in LayoutsOfLen(n - 1), pred \in PredictionsOf(n)}

PageLayouts == UNION {LayoutsOfLen(n) : n \in 0..MaxPageBlocks}

NewPage(layout_results) ==
    [pc |-> "start", layout_results |-> layout_results, text_blocks |-> <<>>,
     table_blocks |-> <<>>, processed_tables |-> <<>>, raised |-> FALSE, markdown |-> <<>>]
NoPage == NewPage(<<>>)

(***************************************************************************)
(* Line grouping of OCR text blocks.  A text block is the dictionary the   *)
(* services build for one recognised word: its text and the top left       *)
(* corner of its box ('x', 'y' in PytesseractOCRService, 'x_min', 'y_min'  *)
(* in ImageProcessor; the model names both x and y).                       *)
(***************************************************************************)
Abs(n) == IF n < 0 THEN -n ELSE n

RECURSIVE SumY(_)
SumY(line) == IF line = <<>> THEN 0 ELSE SumY(Front(line)) + Last(line).y

\* avg_y = sum(b['y'] for b in current_line) / len(current_line)
\* abs(block['y'] - avg_y) <= line_height_threshold
\* the quotient is a float; both sides are multiplied by the positive length
WithinAverage(current_line, block, threshold) ==
    Abs(block.y * Len(current_line) - SumY(current_line)) <= threshold * Len(current_line)

\* last_block = current_line[-1]
\* abs(block['y_min'] - last_block['y_min']) <= line_threshold
WithinLast(current_line, block, threshold) ==
    Abs(block.y - Last(current_line).y) <= threshold

\* the test "is this block on the same line" of the two services
SameLine(service, current_line, block) ==
    IF service = "PytesseractOCRService"
    THEN WithinAverage(current_line, block, line_height_threshold)
    ELSE WithinLast(current_line, block, line_height_threshold)

\* one iteration of "for block in text_blocks": st holds lines and current_line
GroupBlock(service, st, block) ==
    IF st.current_line = <<>> THEN [st EXCEPT !.current_line = <<block>>]
    ELSE IF SameLine(service, st.current_line, block)
         THEN [st EXCEPT !.current_line = Append(@, block)]
    ELSE [lines |-> Append(st.lines, st.current_line), current_line |-> <<block>>]

RECURSIVE GroupBlocks(_, _, _, _)
GroupBlocks(service, st, text_blocks, i) ==
    IF i > Len(text_blocks) THEN st
    ELSE GroupBlocks(service, GroupBlock(service, st, text_blocks[i]), text_blocks, i + 1)

\* list.sort(key=...) with a single key: stable, as the sort by (y, x) with
\* the other coordinate set aside
SortByY(s) ==
    LET keyed == SortByPosition([i \in DOMAIN s |-> [y |-> s[i].y, x |-> 0, block |-> s[i]]])
    IN [i \in DOMAIN keyed |-> keyed[i].block]

SortByX(s) ==
    LET keyed == SortByPosition([i \in DOMAIN s |-> [y |-> 0, x |-> s[i].x, block |-> s[i]]])
    IN [i \in DOMAIN keyed |-> keyed[i].block]

\* _group_into_lines of either service, from "lines = []" to "return lines",
\* over a list the service has sorted
GroupIntoLines(service, text_blocks) ==
    LET st == GroupBlocks(service, [lines |-> <<>>, current_line |-> <<>>], text_blocks, 1)
        lines == IF st.current_line = <<>> THEN st.lines
                 ELSE Append(st.lines, st.current_line)
    IN [i \in DOMAIN lines |-> SortByX(lines[i])]

\* the corners a recognised word can have: rows 15 and 20 pixels below the
\* first, and one 30 pixels below it
BlockYs == {0, 15, 20, 30}
BlockXs == {0, 50}

\* the text blocks that can stand at position i of the OCR output
BlocksOf(i) == {[text |-> PageTexts[i], x |-> x, y |-> y] : x \in BlockXs, y \in BlockYs}

RECURSIVE BlockListsOfLen(_)
BlockListsOfLen(n) ==
    IF n = 0 THEN {<<>>}
    ELSE {Append(s, block) : s \in BlockListsOfLen(n - 1), block \in BlocksOf(n)}

BlockLists == UNION {BlockListsOfLen(n) : n \in 0..MaxTextBlocks}

LineServices == {"PytesseractOCRService", "ImageProcessor"}

NewGrouping(service, text_blocks) ==
    [pc |-> "start", service |-> service, text_blocks |-> text_blocks, lines |-> <<>>]
NoGrouping == NewGrouping("", <<>>)
(***************************************************************************)
(* CloudConversionResult (cloud_processor.py:15-208): a result whose       *)
(* content is "" and whose export methods ask the cloud API on demand,     *)
(* keeping what the API answered in _cached_outputs.  A string built by    *)
(* join or an f-string is the sequence of its pieces.                      *)
(***************************************************************************)
valid_output_types ==
    {"markdown", "flat-json", "html", "csv", "specified-fields", "specified-json"}

\* if output_type not in valid_output_types: output_type = "markdown"
ValidatedOutputType(output_type) ==
    IF output_type \in valid_output_types THEN output_type ELSE "markdown"

\* ','.join(specified_fields)
RECURSIVE JoinFields(_)
JoinFields(specified_fields) ==
    IF Len(specified_fields) <= 1 THEN specified_fields
    ELSE JoinFields(Front(specified_fields)) \o <<",", Last(specified_fields)>>

\* no list of fields, no schema: None
NoFields == <<>>
NoSchema == <<>>

\* hash(str(json_schema)): a number that the text of the schema decides
SchemaHash(json_schema) == Len(json_schema) + 31 * Len(Head(json_schema))

\* cache_key = output_type, + "_fields_..." if specified_fields,
\* + "_schema_..." if json_schema
CacheKey(output_type, specified_fields, json_schema) ==
    <<ValidatedOutputType(output_type)>>
    \o (IF specified_fields # NoFields THEN <<"_fields_">> \o JoinFields(specified_fields)
        ELSE <<>>)
    \o (IF json_schema # NoSchema THEN <<"_schema_", SchemaHash(json_schema)>> ELSE <<>>)

\* if cache_key in self._cached_outputs
CacheHit_never(cached_outputs, cache_key) == FALSE

CacheHit(cached_outputs, cache_key) == cache_key \in DOMAIN cached_outputs

\* what a call of _get_cloud_output or of an export method gives its caller:
\* a returned text, or an exception
CloudReturn(text, source) == [status |-> "ok", content |-> text, source |-> source]
CloudRaise(exception, source) == [status |-> exception, content |-> "", source |-> source]

\* _convert_locally, on the content "" of the cloud result: the HTML of the
\* empty text, the JSON of the empty document, the content itself; and
\* extract_csv(include_all_tables=True) raises ValueError, there is no table
ConvertLocally(output_type) ==
    IF output_type = "html" THEN CloudReturn("local html", "local")
    ELSE IF output_type = "flat-json" THEN CloudReturn("local json", "local")
    ELSE IF output_type = "csv"
         THEN (IF ExtractCsvResult(<<BlankLine>>, 0, TRUE, OllamaDown).status = "ok"
               THEN CloudReturn("local csv", "local")
               ELSE CloudRaise("ValueError", "local"))
    ELSE CloudReturn("", "local")

\* the answers of the API to one request: a response with a content, the
\* status 429, any other failure (no connection, an HTTP error, no JSON)
ApiContents == {"c1", "c2"}
ApiReplies ==
    {[state |-> "ok", content |-> c] : c \in ApiContents}
    \cup {[state |-> "429", content |-> ""], [state |-> "error", content |-> ""]}

\* what a call did: its cache key, whether the key was in the cache, whether
\* a request was posted, what _get_cloud_output returned or raised, and what
\* the export method gives its caller
CloudCallRecord(cache_key, hit, contacted, output) ==
    [key |-> cache_key, hit |-> hit, contacted |-> contacted, output |-> output,
     result |-> output]

\* _get_cloud_output (lines 26-116) on the result r, the API answering reply
\* if it is asked.  r.contacts counts the requests posted, r.successes keeps
\* for every key the contents of the requests that were answered with one;
\* r.last tells what the call did
GetCloudOutput(r, output_type, specified_fields, json_schema, reply) ==
    LET cache_key == CacheKey(output_type, specified_fields, json_schema)
        asked == [r EXCEPT !.contacts = @ + 1]
    IN IF CacheHit(r.cached_outputs, cache_key)
       THEN [r EXCEPT !.last = CloudCallRecord(cache_key, TRUE, FALSE,
                                   CloudReturn(r.cached_outputs[cache_key], "cache"))]
       ELSE IF reply.state = "429"
       THEN [asked EXCEPT !.last = CloudCallRecord(cache_key, FALSE, TRUE,
                                       CloudRaise("ConversionError", "cloud"))]
       ELSE IF reply.state = "error"
       THEN [asked EXCEPT !.last = CloudCallRecord(cache_key, FALSE, TRUE,
                                       ConvertLocally(ValidatedOutputType(output_type)))]
       ELSE [asked EXCEPT
                !.cached_outputs = [k \in DOMAIN @ \cup {cache_key} |->
                                       IF k = cache_key THEN reply.content ELSE @[k]],
                !.successes = [k \in DOMAIN @ \cup {cache_key} |->
                                  IF k \in DOMAIN @
                                  THEN (IF k = cache_key THEN Append(@[k], reply.content)
                                        ELSE @[k])
                                  ELSE <<reply.content>>],
                !.last = CloudCallRecord(cache_key, FALSE, TRUE,
                                         CloudReturn(reply.content, "cloud"))]

\* extract_data (lines 137-180): the kind of output its arguments select
DataOutputType(specified_fields, json_schema) ==
    IF specified_fields # NoFields THEN "specified-fields"
    ELSE IF json_schema # NoSchema THEN "specified-json"
    ELSE "flat-json"

\* json.loads(content) raises on the empty text; the contents of the API and
\* the JSON of the local conversion are JSON texts
JsonLoads(text) == IF text = "" THEN "JSONDecodeError" ELSE "ok"

\* what extract_data gives its caller: the parsed content in a document, or,
\* after any exception (except Exception, lines 174-180), the document of
\* format "json_parse_error"
DataResult(output) ==
    IF output.status = "ok" /\ JsonLoads(output.content) = "ok" THEN output
    ELSE CloudReturn("json_parse_error", output.source)

\* what extract_text gives its caller: "" after any exception (lines 186-190)
TextResult(output) == IF output.status = "ok" THEN output ELSE CloudReturn("", output.source)

\* the export methods that return what _get_cloud_output returns or raises
SameResult(output) == output

\* self._cached_outputs = {}; no request made, no call yet
NoCall == CloudCallRecord(<<>>, FALSE, FALSE, CloudReturn("", "none"))
EmptyCache == [k \in {} |-> ""]
NewCloudResult ==
    [pc |-> "ready", cached_outputs |-> EmptyCache, successes |-> EmptyCache, contacts |-> 0,
     last |-> NoCall]
NoCloud == [NewCloudResult EXCEPT !.pc = "none"]

\* the arguments extract_data is called with
CloudFields == {NoFields, <<"a">>, <<"a", "b">>}
CloudSchemas == {NoSchema, <<"s">>}


(***************************************************************************)
(* The state machine: a ConversionResult is constructed over a text, then  *)
(* its parser and its CSV export are called any number of times; the state *)
(* holds the last call and what it returned.                               *)
(***************************************************************************)
Init ==
    /\ content \in TableDocs
    /\ op = "new"
    /\ doc = EmptyDocument
    /\ req = NoRequest
    /\ out = NoOutput
    /\ json_data = NoJson
    /\ html = NoHtml
    /\ table_data = <<>>
    /\ table_out = NoTableOut
    /\ processed_table = NoTable
    /\ calls = NoCalls
    /\ frames = NoFrames
    /\ page = NoPage
    /\ grouping = NoGrouping
    /\ cloud = NoCloud

\* self._json_parser.parse(self.content)
ParseCall ==
    /\ op' = "parse"
    /\ doc' = Parse(content)
    /\ req' = NoRequest
    /\ out' = NoOutput
    /\ json_data' = NoJson
    /\ html' = NoHtml
    /\ UNCHANGED content
    /\ UNCHANGED tableVars
    /\ UNCHANGED serviceVars
    /\ UNCHANGED concVars

\* self._html_converter.extract(self.content)  (result.py:719)
ExtractHtmlCall ==
    /\ op' = "html"
    /\ doc' = EmptyDocument
    /\ req' = NoRequest
    /\ out' = NoOutput
    /\ json_data' = NoJson
    /\ html' = Extract(content)
    /\ UNCHANGED content
    /\ UNCHANGED tableVars
    /\ UNCHANGED serviceVars
    /\ UNCHANGED concVars

\* extract_data()
ExtractDataCall ==
    \E reply \in OllamaReplies(content) :
        /\ op' = "data"
        /\ doc' = EmptyDocument
        /\ req' = [index |-> 0, all |-> FALSE, reply |-> reply]
        /\ out' = NoOutput
        /\ json_data' = ExtractData(content, reply)
        /\ html' = NoHtml
        /\ UNCHANGED content
        /\ UNCHANGED tableVars
        /\ UNCHANGED serviceVars
        /\ UNCHANGED concVars

\* extract_csv(table_index = index)
ExtractCsvOne ==
    \E index \in (-MaxIndex)..MaxIndex, reply \in OllamaReplies(content) :
        /\ op' = "csv"
        /\ doc' = EmptyDocument
        /\ req' = [index |-> index, all |-> FALSE, reply |-> reply]
        /\ out' = ExtractCsvResult(content, index, FALSE, reply)
        /\ json_data' = NoJson
        /\ html' = NoHtml
        /\ UNCHANGED content
        /\ UNCHANGED tableVars
        /\ UNCHANGED serviceVars
        /\ UNCHANGED concVars

\* extract_csv(include_all_tables = True)
ExtractCsvAll ==
    \E reply \in OllamaReplies(content) :
        /\ op' = "csv"
        /\ doc' = EmptyDocument
        /\ req' = [index |-> 0, all |-> TRUE, reply |-> reply]
        /\ out' = ExtractCsvResult(content, 0, TRUE, reply)
        /\ json_data' = NoJson
        /\ html' = NoHtml
        /\ UNCHANGED content
        /\ UNCHANGED tableVars
        /\ UNCHANGED serviceVars
        /\ UNCHANGED concVars

Next == ParseCall \/ ExtractDataCall \/ ExtractCsvOne \/ ExtractCsvAll

Spec == Init /\ [][Next]_vars

(***************************************************************************)
(* The parser alone, over every checked text.                              *)
(***************************************************************************)
InitParse ==
    /\ content \in HeaderDocs \cup TableDocs \cup ListDocs \cup MixedDocs
    /\ op = "new"
    /\ doc = EmptyDocument
    /\ req = NoRequest
    /\ out = NoOutput
    /\ json_data = NoJson
    /\ html = NoHtml
    /\ table_data = <<>>
    /\ table_out = NoTableOut
    /\ processed_table = NoTable
    /\ calls = NoCalls
    /\ frames = NoFrames
    /\ page = NoPage
    /\ grouping = NoGrouping
    /\ cloud = NoCloud

NextParse == ParseCall

SpecParse == InitParse /\ [][NextParse]_vars

(***************************************************************************)
(* Table grid reconstruction alone: _organize_table_data is called on the  *)
(* texts and the structure output of one table region.                     *)
(***************************************************************************)
InitTable ==
    /\ table_out \in TableOuts
    /\ table_data \in TableDatas(table_out)
    /\ processed_table = NoTable
    /\ content = <<BlankLine>>
    /\ op = "new"
    /\ doc = EmptyDocument
    /\ req = NoRequest
    /\ out = NoOutput
    /\ json_data = NoJson
    /\ html = NoHtml
    /\ calls = NoCalls
    /\ frames = NoFrames
    /\ page = NoPage
    /\ grouping = NoGrouping
    /\ cloud = NoCloud

\* self._organize_table_data(table_data, table_out)
OrganizeCall ==
    /\ processed_table' = OrganizeTableData(table_data, table_out)
    /\ UNCHANGED <<table_data, table_out>>
    /\ UNCHANGED docVars
    /\ UNCHANGED concVars
    /\ UNCHANGED serviceVars

NextTable == OrganizeCall

SpecTable == InitTable /\ [][NextTable]_vars

(***************************************************************************)
(* The parser, the renderer and the exports of a ConversionResult over     *)
(* texts of lines of every kind, well-formed or not.                       *)
(***************************************************************************)
InitRender ==
    /\ content \in RenderDocs \cup FencedDocs
    /\ op = "new"
    /\ doc = EmptyDocument
    /\ req = NoRequest
    /\ out = NoOutput
    /\ json_data = NoJson
    /\ html = NoHtml
    /\ table_data = <<>>
    /\ table_out = NoTableOut
    /\ processed_table = NoTable
    /\ calls = NoCalls
    /\ frames = NoFrames
    /\ page = NoPage
    /\ grouping = NoGrouping
    /\ cloud = NoCloud

NextRender == ParseCall \/ ExtractDataCall \/ ExtractHtmlCall \/ ExtractCsvOne \/ ExtractCsvAll

SpecRender == InitRender /\ [][NextRender]_vars

(***************************************************************************)
(* Two threads call parse or extract, each on its own text, through one    *)
(* shared parser and one shared renderer; a step is one iteration of the   *)
(* line loop of parse or one pass of extract, and the steps of the calls   *)
(* interleave in any order.                                                *)
(***************************************************************************)
InitConc ==
    /\ calls \in [CallIds -> {NewCall(method, arg) : method \in Methods, arg \in ConcDocs}]
    /\ frames = NoFrames
    /\ page = NoPage
    /\ grouping = NoGrouping
    /\ cloud = NoCloud
    /\ content = <<BlankLine>>
    /\ op = "new"
    /\ doc = EmptyDocument
    /\ req = NoRequest
    /\ out = NoOutput
    /\ json_data = NoJson
    /\ html = NoHtml
    /\ table_data = <<>>
    /\ table_out = NoTableOut
    /\ processed_table = NoTable

Running(c) == calls[c].pc = "running"

\* some other call is in progress while call c takes a step
Overlaps(c) == calls[c].overlapped \/ \E d \in CallIds \ {c} : Running(d)

\* the call is made: parse returns at once on an empty text (result.py:40-46),
\* otherwise the call sets up its local variables
CallStart(c) ==
    /\ calls[c].pc = "ready"
    /\ IF calls[c].method = "parse" /\ IsEmptyText(calls[c].arg)
       THEN /\ calls' = [calls EXCEPT ![c].pc = "done", ![c].overlapped = Overlaps(c),
                                      ![c].result = [doc |-> EmptyDocument, html |-> NoHtml]]
            /\ UNCHANGED frames
       ELSE /\ calls' = [calls EXCEPT ![c].pc = "running", ![c].overlapped = Overlaps(c)]
            /\ frames' = [frames EXCEPT ![FrameOf(c)] = StartFrame(calls[c].arg)]
    /\ UNCHANGED docVars
    /\ UNCHANGED tableVars
    /\ UNCHANGED serviceVars

\* one iteration of  for line in lines  in parse (result.py:53-78)
ParseLineStep(c) ==
    /\ Running(c)
    /\ calls[c].method = "parse"
    /\ frames[FrameOf(c)].at <= Len(frames[FrameOf(c)].lines)
    /\ frames' = [frames EXCEPT ![FrameOf(c)].st =
                                    ParseLine(@, frames[FrameOf(c)].lines[frames[FrameOf(c)].at]),
                                ![FrameOf(c)].at = @ + 1]
    /\ calls' = [calls EXCEPT ![c].overlapped = Overlaps(c)]
    /\ UNCHANGED docVars
    /\ UNCHANGED tableVars
    /\ UNCHANGED serviceVars

\* after the loop: the last section, the hierarchy, the document (result.py:80-108)
ParseReturn(c) ==
    /\ Running(c)
    /\ calls[c].method = "parse"
    /\ frames[FrameOf(c)].at > Len(frames[FrameOf(c)].lines)
    /\ calls' = [calls EXCEPT ![c].pc = "done", ![c].overlapped = Overlaps(c),
                              ![c].result =
                                  [doc |-> StructuredDocument(ParseFinish(frames[FrameOf(c)].st)),
                                   html |-> NoHtml]]
    /\ UNCHANGED frames
    /\ UNCHANGED docVars
    /\ UNCHANGED tableVars
    /\ UNCHANGED serviceVars

\* html = self._process_...(html)  (result.py:385-406): one pass of extract
ExtractPassStep(c) ==
    /\ Running(c)
    /\ calls[c].method = "extract"
    /\ ~ExtractDone(frames[FrameOf(c)].fr)
    /\ frames' = [frames EXCEPT ![FrameOf(c)].fr = ExtractPass(@)]
    /\ calls' = [calls EXCEPT ![c].overlapped = Overlaps(c)]
    /\ UNCHANGED docVars
    /\ UNCHANGED tableVars
    /\ UNCHANGED serviceVars

\* return html  (result.py:408), or the exception of a pass
ExtractReturn(c) ==
    /\ Running(c)
    /\ calls[c].method = "extract"
    /\ ExtractDone(frames[FrameOf(c)].fr)
    /\ calls' = [calls EXCEPT ![c].pc = "done", ![c].overlapped = Overlaps(c),
                              ![c].result =
                                  [doc |-> EmptyDocument,
                                   html |-> ExtractResult(frames[FrameOf(c)].fr)]]
    /\ UNCHANGED frames
    /\ UNCHANGED docVars
    /\ UNCHANGED tableVars
    /\ UNCHANGED serviceVars

NextConc ==
    \E c \in CallIds :
        CallStart(c) \/ ParseLineStep(c) \/ ParseReturn(c) \/ ExtractPassStep(c) \/ ExtractReturn(c)

SpecConc == InitConc /\ [][NextConc]_vars

(***************************************************************************)
(* One page through _extract_text_with_layout_advanced: the predictions    *)
(* are classified and the text blocks sorted, the table blocks are         *)
(* processed, and the page markdown is made.  An exception that leaves a   *)
(* step is caught by the method (lines 394-396), which returns "".         *)
(***************************************************************************)
InitPage ==
    /\ page \in {NewPage(layout_results) : layout_results \in PageLayouts}
    /\ grouping = NoGrouping
    /\ cloud = NoCloud
    /\ content = <<BlankLine>>
    /\ op = "new"
    /\ doc = EmptyDocument
    /\ req = NoRequest
    /\ out = NoOutput
    /\ json_data = NoJson
    /\ html = NoHtml
    /\ table_data = <<>>
    /\ table_out = NoTableOut
    /\ processed_table = NoTable
    /\ calls = NoCalls
    /\ frames = NoFrames

\* for pred in layout_results: ...; text_blocks.sort(...)  (lines 322-386)
ClassifyStep ==
    /\ page.pc = "start"
    /\ page' = [page EXCEPT !.pc = "classified",
                            !.text_blocks = ClassifyBlocks(page.layout_results).text_blocks,
                            !.table_blocks = ClassifyBlocks(page.layout_results).table_blocks]
    /\ UNCHANGED <<grouping, cloud>>
    /\ UNCHANGED docVars
    /\ UNCHANGED tableVars
    /\ UNCHANGED concVars

\* processed_tables = self._process_tables_with_structure_model(img, table_blocks)
ProcessTablesStep ==
    /\ page.pc = "classified"
    /\ page' = [page EXCEPT !.pc = "tables",
                   !.processed_tables = ProcessTablesWithStructureModel(page.table_blocks).tables,
                   !.raised = ProcessTablesWithStructureModel(page.table_blocks).raised]
    /\ UNCHANGED <<grouping, cloud>>
    /\ UNCHANGED docVars
    /\ UNCHANGED tableVars
    /\ UNCHANGED concVars

\* return self._convert_to_structured_markdown_advanced(...)  (line 392), or
\* return ""  (line 396) after an exception
ConvertStep ==
    /\ page.pc = "tables"
    /\ page' = [page EXCEPT !.pc = "done",
                   !.markdown = IF page.raised THEN <<>>
                                ELSE ConvertToStructuredMarkdownAdvanced(page.text_blocks,
                                                                         page.processed_tables)]
    /\ UNCHANGED <<grouping, cloud>>
    /\ UNCHANGED docVars
    /\ UNCHANGED tableVars
    /\ UNCHANGED concVars

NextPage == ClassifyStep \/ ProcessTablesStep \/ ConvertStep

SpecPage == InitPage /\ [][NextPage]_vars

(***************************************************************************)
(* Line grouping: a service holds the text blocks OCR found in an image,   *)
(* in the order OCR reported them, and lays them out in lines.             *)
(***************************************************************************)
InitLines ==
    /\ content = <<BlankLine>>
    /\ op = "new"
    /\ doc = EmptyDocument
    /\ req = NoRequest
    /\ out = NoOutput
    /\ json_data = NoJson
    /\ html = NoHtml
    /\ table_data = <<>>
    /\ table_out = NoTableOut
    /\ processed_table = NoTable
    /\ calls = NoCalls
    /\ frames = NoFrames
    /\ page = NoPage
    /\ grouping \in {NewGrouping(service, text_blocks) :
                        service \in LineServices, text_blocks \in BlockLists}
    /\ cloud = NoCloud

\* PytesseractOCRService: text_blocks.sort(key=lambda x: (x['y'], x['x']));
\* lines = self._group_into_lines(text_blocks, image_shape)
OcrGroupIntoLines ==
    /\ grouping.pc = "start"
    /\ grouping.service = "PytesseractOCRService"
    /\ grouping' = [grouping EXCEPT
                       !.pc = "done",
                       !.text_blocks = SortByPosition(grouping.text_blocks),
                       !.lines = GroupIntoLines(grouping.service,
                                                SortByPosition(grouping.text_blocks))]
    /\ UNCHANGED <<page, cloud>>
    /\ UNCHANGED docVars
    /\ UNCHANGED tableVars
    /\ UNCHANGED concVars

\* ImageProcessor: text_blocks.sort(key=lambda x: x['y_min']), in
\* _convert_to_layout_markdown and again in _group_into_lines
ImageGroupIntoLines ==
    /\ grouping.pc = "start"
    /\ grouping.service = "ImageProcessor"
    /\ grouping' = [grouping EXCEPT
                       !.pc = "done",
                       !.text_blocks = SortByY(SortByY(grouping.text_blocks)),
                       !.lines = GroupIntoLines(grouping.service,
                                                SortByY(SortByY(grouping.text_blocks)))]
    /\ UNCHANGED <<page, cloud>>
    /\ UNCHANGED docVars
    /\ UNCHANGED tableVars
    /\ UNCHANGED concVars

NextLines == OcrGroupIntoLines \/ ImageGroupIntoLines

SpecLines == InitLines /\ [][NextLines]_vars

(***************************************************************************)
(* A CloudConversionResult and the export calls made on it, one after the  *)
(* other; the API answers each request it gets in one of its ways.         *)
(***************************************************************************)
InitCloud ==
    /\ cloud = NewCloudResult
    /\ page = NoPage
    /\ grouping = NoGrouping
    /\ content = <<BlankLine>>
    /\ op = "new"
    /\ doc = EmptyDocument
    /\ req = NoRequest
    /\ out = NoOutput
    /\ json_data = NoJson
    /\ html = NoHtml
    /\ table_data = <<>>
    /\ table_out = NoTableOut
    /\ processed_table = NoTable
    /\ calls = NoCalls
    /\ frames = NoFrames

\* the result after an export call whose _get_cloud_output left the result
\* after, the caller getting result; the API is asked at most
\* MaxCloudRequests times
CloudCall(after, result) ==
    /\ cloud.pc = "ready"
    /\ after.contacts <= MaxCloudRequests
    /\ cloud' = [after EXCEPT !.last.result = result]
    /\ UNCHANGED <<page, grouping>>
    /\ UNCHANGED docVars
    /\ UNCHANGED tableVars
    /\ UNCHANGED concVars

\* extract_markdown()
CloudExtractMarkdown ==
    \E reply \in ApiReplies :
        CloudCall(GetCloudOutput(cloud, "markdown", NoFields, NoSchema, reply),
                  SameResult(GetCloudOutput(cloud, "markdown", NoFields, NoSchema,
                                            reply).last.output))

\* extract_html()
CloudExtractHtml ==
    \E reply \in ApiReplies :
        CloudCall(GetCloudOutput(cloud, "html", NoFields, NoSchema, reply),
                  SameResult(GetCloudOutput(cloud, "html", NoFields, NoSchema,
                                            reply).last.output))

\* the call of _get_cloud_output that extract_data(specified_fields,
\* json_schema) makes: with the fields and no schema, or with the schema
DataOutput(r, specified_fields, json_schema, reply) ==
    GetCloudOutput(r, DataOutputType(specified_fields, json_schema), specified_fields,
                   IF specified_fields # NoFields THEN NoSchema ELSE json_schema, reply)

CloudExtractData ==
    \E reply \in ApiReplies, specified_fields \in CloudFields, json_schema \in CloudSchemas :
        CloudCall(DataOutput(cloud, specified_fields, json_schema, reply),
                  DataResult(DataOutput(cloud, specified_fields, json_schema,
                                        reply).last.output))

\* extract_text()
CloudExtractText ==
    \E reply \in ApiReplies :
        CloudCall(GetCloudOutput(cloud, "markdown", NoFields, NoSchema, reply),
                  TextResult(GetCloudOutput(cloud, "markdown", NoFields, NoSchema,
                                            reply).last.output))

\* extract_csv()
CloudExtractCsv ==
    \E reply \in ApiReplies :
        CloudCall(GetCloudOutput(cloud, "csv", NoFields, NoSchema, reply),
                  SameResult(GetCloudOutput(cloud, "csv", NoFields, NoSchema,
                                            reply).last.output))

NextCloud ==
    \/ CloudExtractMarkdown
    \/ CloudExtractHtml
    \/ CloudExtractData
    \/ CloudExtractText
    \/ CloudExtractCsv

SpecCloud == InitCloud /\ [][NextCloud]_vars

(***************************************************************************)
(* Properties.                                                             *)
(***************************************************************************)
Parsed == op = "parse"
Exported == op = "csv"
NumSections == Len(doc.sections)
LevelOf(i) == doc.sections[i].level

InSeq(x, s) == \E k \in 1..Len(s) : s[k] = x
Occurrences(x, s) == Cardinality({k \in 1..Len(s) : s[k] = x})
Increasing(s) == \A k \in 1..(Len(s) - 1) : s[k] < s[k + 1]

\* the sections that hold section i among their subsections
ParentsOf(i) == {p \in 1..NumSections : InSeq(i, doc.subs[p])}

\* the earlier sections with a level strictly smaller than section i's
SmallerBefore(i) == {j \in 1..(i - 1) : LevelOf(j) < LevelOf(i)}
NearestSmallerBefore(i) == CHOOSE j \in SmallerBefore(i) : \A q \in SmallerBefore(i) : q <= j

\* the sections of the returned tree, flattened: each section followed by
\* its subsections
RECURSIVE FlattenTree(_)
FlattenTree(idxs) ==
    IF idxs = <<>> THEN <<>>
    ELSE <<Head(idxs)>> \o FlattenTree(doc.subs[Head(idxs)]) \o FlattenTree(Tail(idxs))

\* the levels of the header lines of a text, in order
HeaderLevels(lines) ==
    LET hs == SelectSeq(lines, HeaderMatch) IN [k \in 1..Len(hs) |-> hs[k].lv]

\* C1: after parse, every section is a subsection of exactly the most recent
\* earlier section with a strictly smaller level, appended after that
\* section's earlier subsections, and is in the top-level list (once, in
\* order) exactly when no earlier section has a smaller level.
C1_Hierarchy ==
    Parsed =>
        /\ \A i \in 1..NumSections :
              IF SmallerBefore(i) = {}
              THEN ParentsOf(i) = {} /\ Occurrences(i, doc.top) = 1
              ELSE /\ ParentsOf(i) = {NearestSmallerBefore(i)}
                   /\ Occurrences(i, doc.subs[NearestSmallerBefore(i)]) = 1
                   /\ ~InSeq(i, doc.top)
        /\ Increasing(doc.top)
        /\ \A p \in 1..NumSections : Increasing(doc.subs[p])

\* a section was attached to a parent that is not the section just before it
\* (the stack was popped first)
C1_Witness ==
    Parsed /\ \E i \in 1..NumSections : \E p \in ParentsOf(i) : p < i - 1

LevelsC2 == <<1, 2, 3, 2, 1>>

\* C2 as stated: header levels [1,2,3,2,1] give 2 top-level sections, the
\* first with one child that has one grandchild, the second with none.
C2_Original ==
    (Parsed /\ HeaderLevels(content) = LevelsC2) =>
        /\ Len(doc.top) = 2
        /\ Len(doc.subs[doc.top[1]]) = 1
        /\ Len(doc.subs[doc.subs[doc.top[1]][1]]) = 1
        /\ doc.subs[doc.top[2]] = <<>>

\* C2 amended: header levels [1,2,3,2,1] give 2 top-level sections; the first
\* has two children (the two level-2 sections), of which the first has one
\* child (the level-3 section) and the second none; the second top-level
\* section has no children.
C2_Amended ==
    (Parsed /\ HeaderLevels(content) = LevelsC2) =>
        /\ doc.top = <<1, 5>>
        /\ doc.subs[1] = <<2, 4>>
        /\ doc.subs[2] = <<3>>
        /\ doc.subs[3] = <<>>
        /\ doc.subs[4] = <<>>
        /\ doc.subs[5] = <<>>

C2_Witness == Parsed /\ HeaderLevels(content) = LevelsC2 /\ NumSections = 5

\* C3: after parse, metadata.total_sections is the number of sections of the
\* flattened tree, and every parsed section is in the flattened tree exactly
\* once.
C3_TotalSections ==
    Parsed =>
        /\ doc.metadata.total_sections = Len(FlattenTree(doc.top))
        /\ \A i \in 1..NumSections : Occurrences(i, FlattenTree(doc.top)) = 1

\* a tree with nested sections and more than one top-level section
C3_Witness ==
    /\ Parsed
    /\ doc.metadata.total_sections >= 4
    /\ Len(doc.top) >= 2
    /\ \E p \in 1..NumSections : Len(doc.subs[p]) >= 2

\* C4: after parse, every subsection has a level strictly greater than the
\* level of the section that holds it.
C4_ChildDeeper ==
    Parsed =>
        \A p \in 1..NumSections : \A k \in 1..Len(doc.subs[p]) :
            LevelOf(doc.subs[p][k]) > LevelOf(p)

\* a header of the level of the section before it, under a common parent
C4_Witness ==
    /\ Parsed
    /\ \E i \in 2..NumSections :
          /\ LevelOf(i) = LevelOf(i - 1)
          /\ ParentsOf(i) # {}
          /\ ParentsOf(i) = ParentsOf(i - 1)

\* C5 as stated: every row of every table of the Document Model has exactly
\* as many cells as the table has header columns.
C5_RowsPadded ==
    Parsed =>
        \A i \in 1..NumSections :
            \A t \in 1..Len(doc.sections[i].content.tables) :
                LET table == doc.sections[i].content.tables[t]
                IN \A r \in 1..Len(table.rows) : Len(table.rows[r]) = table.columns

\* the lines before the first header line
RECURSIVE BeforeFirstHeader(_)
BeforeFirstHeader(lines) ==
    IF lines = <<>> \/ HeaderMatch(Head(lines)) THEN <<>>
    ELSE <<Head(lines)>> \o BeforeFirstHeader(Tail(lines))

\* the lines from the first non-blank line on
RECURSIVE DropLeadingBlank(_)
DropLeadingBlank(lines) ==
    IF lines # <<>> /\ IsBlank(Head(lines)) THEN DropLeadingBlank(Tail(lines)) ELSE lines

\* C6 as stated: when the text before the first header line is not blank,
\* the document's first section is the level-1 section "Content" holding
\* the content of that text, whether or not a header line follows.
C6_PreHeaderKept ==
    (Parsed /\ ~IsEmptyText(BeforeFirstHeader(content))) =>
        /\ NumSections >= 1
        /\ doc.sections[1].title = "Content"
        /\ doc.sections[1].level = 1
        /\ doc.sections[1].content = ParseContent(DropLeadingBlank(BeforeFirstHeader(content)))

\* the CSV of one table: the header record, then the data records in order
TableCsv(table) == <<table.headers>> \o table.rows

\* C7 as stated: extract_csv(table_index = i) returns the CSV of the i-th
\* collected table when 0 <= i < count, fails with OutOfRange for every
\* other index when tables were collected, and fails with NoTablesFound when
\* none was (stated for the calls that the parser serves).
C7_SingleExport ==
    (Exported /\ ~req.all /\ req.reply = OllamaDown) =>
        LET n == Len(out.tables) IN
        IF n = 0 THEN out.status = "NoTablesFound"
        ELSE IF 0 <= req.index /\ req.index < n
             THEN out.status = "ok" /\ out.records = TableCsv(out.tables[req.index + 1])
             ELSE out.status = "OutOfRange"

\* the separator group written before table k
SeparatorGroup(k) == <<<<>>, <<TableTitle(k)>>, <<>>>>

\* C8: extract_csv(include_all_tables = True) over N >= 1 collected tables
\* returns the tables' CSVs in collection order, the group (blank record,
\* "=== Table k ===", blank record) immediately before table k for k = 2..N,
\* and no other separator: N - 1 groups, none before the first table or
\* after the last.
C8_AllExport ==
    (Exported /\ req.all /\ out.tables # <<>>) =>
        /\ out.status = "ok"
        /\ out.records =
              Concat([k \in 1..Len(out.tables) |->
                         (IF k >= 2 THEN SeparatorGroup(k) ELSE <<>>) \o TableCsv(out.tables[k])])
        /\ Cardinality({r \in 1..Len(out.records) : out.records[r] = <<>>})
              = 2 * (Len(out.tables) - 1)
        /\ out.records[1] # <<>>
        /\ Last(out.records) # <<>>

\* all tables of a document with three tables were exported
C8_Witness == Exported /\ req.all /\ out.status = "ok" /\ Len(out.tables) = 3

\* a text that is exactly one table: a header row of non-empty cells, a
\* separator row of as many dash cells, body rows of as many non-empty cells
WellFormedTable(lines) ==
    /\ Len(lines) >= 3
    /\ \A i \in 1..Len(lines) :
          /\ RowLike(lines[i])
          /\ Len(lines[i].cells) = Len(lines[1].cells)
          /\ \A c \in 1..Len(lines[i].cells) :
                IF i = 2 THEN lines[i].cells[c] = "-" ELSE lines[i].cells[c] # ""
    /\ \E c \in 1..Len(lines[1].cells) : lines[1].cells[c] # "-"

\* C9 as stated: for a text that is one well-formed table of R body rows,
\* extract_csv (the parser being used) returns R + 1 records, the header
\* cells and then every body row, cells and rows in source order.
C9_WellFormedExport ==
    (Exported /\ req.index = 0 /\ req.reply = OllamaDown /\ WellFormedTable(content)) =>
        /\ out.status = "ok"
        /\ out.records = [i \in 1..(Len(content) - 1) |->
                             content[IF i = 1 THEN 1 ELSE i + 1].cells]

\* the tables the traversal of the Document Model yields for the last call
ModelTables == ModelTablesOf(ExtractData(content, req.reply))

\* C10: extract_csv scans the raw markdown exactly when the traversal of the
\* Document Model yields no table; it then exports the tables the raw scan
\* finds, and raises NoTablesFound only when the raw scan finds none either;
\* when the model yields a table, the model's tables are the ones exported.
C10_RawFallback ==
    Exported =>
        /\ out.raw <=> ModelTables = <<>>
        /\ ModelTables # <<>> => out.tables = ModelTables
        /\ ModelTables = <<>> => out.tables = ExtractMarkdownTablesDirectly(content)
        /\ out.status = "NoTablesFound"
              <=> (ModelTables = <<>> /\ ExtractMarkdownTablesDirectly(content) = <<>>)

\* the model gave no table and the raw scan found one, which was exported
C10_Witness ==
    /\ Exported
    /\ ModelTables = <<>>
    /\ out.raw
    /\ out.status = "ok"
    /\ out.tables # <<>>
    /\ req.reply = OllamaDown

\* the text cut at its header lines: the lines before the first header line,
\* then, for each header line, the lines after it up to the next header line
RECURSIVE HeaderSegments(_, _, _)
HeaderSegments(lines, i, seg) ==
    IF i > Len(lines) THEN <<seg>>
    ELSE IF HeaderMatch(lines[i]) THEN <<seg>> \o HeaderSegments(lines, i + 1, <<>>)
    ELSE HeaderSegments(lines, i + 1, Append(seg, lines[i]))

\* the tables of a text in order of appearance (no table spans a header line)
TablesInText(lines) ==
    LET segs == HeaderSegments(lines, 1, <<>>)
    IN Concat([k \in 1..Len(segs) |-> ExtractTables(segs[k])])

\* C11 as stated: when extract_csv exports the tables collected from the
\* Document Model (the parser being used), the table at flat index i is the
\* i-th table in order of appearance in the markdown text.
C11_DocumentOrder ==
    (Exported /\ req.reply = OllamaDown /\ ~out.raw) => out.tables = TablesInText(content)

\* the lines a section's content is parsed from
SectionLines(i) ==
    IF HeaderLevels(content) = <<>> THEN content ELSE HeaderSegments(content, 1, <<>>)[i + 1]

\* the elements of a set of numbers in increasing order
RECURSIVE Ascending(_)
Ascending(S) ==
    IF S = {} THEN <<>>
    ELSE LET m == CHOOSE x \in S : \A y \in S : x <= y IN <<m>> \o Ascending(S \ {m})

ListPositions(L) == {i \in 1..Len(L) : L[i].k \in {"ul", "ol"}}

\* lines p <= i are list lines of one marker kind with nothing but blank lines
\* and list lines of that kind between them
SameRun(L, p, i) ==
    /\ L[p].k = L[i].k
    /\ \A t \in p..i : IsBlank(L[t]) \/ L[t].k = L[i].k

\* the list lines that no earlier list line is in one run with
RunStarts(L) ==
    {i \in ListPositions(L) : \A p \in ListPositions(L) : p < i => ~SameRun(L, p, i)}

RunOf(L, s) == Ascending({i \in ListPositions(L) : i >= s /\ SameRun(L, s, i)})

RunBlock(L, run) ==
    [type |-> IF L[run[1]].k = "ul" THEN "unordered" ELSE "ordered",
     items |-> [n \in 1..Len(run) |->
                   [text |-> L[run[n]].cells[1], level |-> L[run[n]].lv \div 2]]]

\* the maximal runs of list lines of one marker kind, in order
MaximalRuns(L) ==
    LET starts == Ascending(RunStarts(L))
    IN [k \in 1..Len(starts) |-> RunBlock(L, RunOf(L, starts[k]))]

ExampleC12 == <<UnorderedLine(0, "a"), UnorderedLine(0, "b"), OrderedLine(0, "c")>>

\* C12: after parse, the list blocks of every section are exactly the maximal
\* runs of list lines of one marker kind among the section's lines, in order
\* (a line of the other kind or a non-blank non-list line ends a run, a blank
\* line does not); the lines "- a", "- b", "1. c" give an unordered block of
\* 2 items, then an ordered block of 1 item.
C12_ListRuns ==
    Parsed =>
        /\ \A i \in 1..NumSections :
              doc.sections[i].content.lists = MaximalRuns(SectionLines(i))
        /\ content = ExampleC12 =>
              doc.sections[1].content.lists =
                  <<[type |-> "unordered",
                     items |-> <<[text |-> "a", level |-> 0], [text |-> "b", level |-> 0]>>],
                    [type |-> "ordered", items |-> <<[text |-> "c", level |-> 0]>>]>>

\* a list that goes on across a blank line and is closed by a line of the
\* other marker kind
C12_Witness ==
    /\ Parsed
    /\ \E t \in 2..(Len(content) - 1) : IsBlank(content[t])
    /\ \E i \in 1..NumSections :
          /\ Len(doc.sections[i].content.lists) = 2
          /\ Len(doc.sections[i].content.lists[1].items) = 2
          /\ doc.sections[i].content.lists[1].type # doc.sections[i].content.lists[2].type

\* the text is empty or holds white space only
WhitespaceOnly(lines) == \A i \in 1..Len(lines) : lines[i].k = "blank"

\* C13: an empty or whitespace-only text parses to a document with no
\* sections and metadata.total_sections = 0.
C13_EmptyParse ==
    (Parsed /\ WhitespaceOnly(content)) =>
        /\ doc.sections = <<>>
        /\ doc.top = <<>>
        /\ doc.metadata.total_sections = 0

\* a text of several blank lines was parsed
C13_Witness == Parsed /\ WhitespaceOnly(content) /\ Len(content) >= 2

MetadataKeys ==
    {"total_sections", "max_heading_level", "has_tables", "has_code_blocks", "has_lists",
     "has_images"}

\* C14 as stated: after parse of any text, the empty one included, the
\* metadata object of the document holds all six keys total_sections,
\* max_heading_level, has_tables, has_code_blocks, has_lists and has_images.
C14_MetadataKeys == Parsed => DOMAIN doc.metadata = MetadataKeys

\* the sections of the returned tree, at every depth
TreeSections == {FlattenTree(doc.top)[k] : k \in 1..Len(FlattenTree(doc.top))}

\* C15: after parse of a non-empty text, each of has_tables, has_code_blocks,
\* has_lists and has_images is true exactly when some section of the
\* returned tree, at any depth, has a block of that kind in its content, and
\* max_heading_level is the largest level of a section of the tree.
C15_MetadataFlags ==
    (Parsed /\ ~WhitespaceOnly(content)) =>
        /\ doc.metadata.has_tables
              <=> \E i \in TreeSections : doc.sections[i].content.tables # <<>>
        /\ doc.metadata.has_code_blocks
              <=> \E i \in TreeSections : doc.sections[i].content.code_blocks # <<>>
        /\ doc.metadata.has_lists
              <=> \E i \in TreeSections : doc.sections[i].content.lists # <<>>
        /\ doc.metadata.has_images
              <=> \E i \in TreeSections : doc.sections[i].content.images # <<>>
        /\ \E i \in TreeSections : doc.metadata.max_heading_level = LevelOf(i)
        /\ \A i \in TreeSections : doc.metadata.max_heading_level >= LevelOf(i)

\* the only code block is in a subsection, and no section holds an image
C15_Witness ==
    /\ Parsed
    /\ ~WhitespaceOnly(content)
    /\ doc.metadata.has_code_blocks
    /\ ~doc.metadata.has_images
    /\ \A k \in 1..Len(doc.top) : doc.sections[doc.top[k]].content.code_blocks = <<>>
    /\ doc.metadata.max_heading_level = 2

Organized == processed_table.type # "none"

\* the prediction lies inside the grid
InRange(e) ==
    /\ 0 <= e.row /\ e.row < table_out.num_rows
    /\ 0 <= e.col /\ e.col < table_out.num_cols

\* the 1-based positions of the predictions at row r, column c (0-based)
PredictionsAt(r, c) ==
    {k \in 1..Len(table_out.tf_responses) :
        table_out.tf_responses[k].row = r /\ table_out.tf_responses[k].col = c}

\* the text of prediction k: its extracted text, its own text when no text
\* was extracted for it
PredictionText(k) ==
    IF k <= Len(table_data) THEN table_data[k] ELSE table_out.tf_responses[k].text

GreatestOf(S) == CHOOSE x \in S : \A y \in S : y <= x

ExampleC16 ==
    [tf_responses |-> <<[row |-> 0, col |-> 0, text |-> ""], [row |-> 1, col |-> 1, text |-> ""]>>,
     num_rows |-> 2, num_cols |-> 2]

\* C16: when every prediction's indices are in range, _organize_table_data
\* returns a structured num_rows x num_cols grid in which the cell (r, c)
\* holds the text of the prediction at (r, c) (of the last one when several
\* are there) and every cell without a prediction holds the empty string;
\* 2 x 2 with (0,0) = "X" and (1,1) = "Y" gives [["X", ""], ["", "Y"]].
C16_GridPlacement ==
    (Organized /\ \A k \in 1..Len(table_out.tf_responses) : InRange(table_out.tf_responses[k])) =>
        /\ processed_table.type = "structured_table"
        /\ processed_table.num_rows = table_out.num_rows
        /\ processed_table.num_cols = table_out.num_cols
        /\ Len(processed_table.grid) = table_out.num_rows
        /\ \A r \in 1..table_out.num_rows :
              /\ Len(processed_table.grid[r]) = table_out.num_cols
              /\ \A c \in 1..table_out.num_cols :
                    processed_table.grid[r][c] =
                        IF PredictionsAt(r - 1, c - 1) = {} THEN ""
                        ELSE PredictionText(GreatestOf(PredictionsAt(r - 1, c - 1)))
        /\ (table_out = ExampleC16 /\ table_data = <<"X", "Y">>) =>
              processed_table.grid = <<<<"X", "">>, <<"", "Y">>>>

\* two predictions were placed in two cells of a 2 x 2 grid, two cells stay empty
C16_Witness ==
    /\ Organized
    /\ processed_table.type = "structured_table"
    /\ processed_table.grid = <<<<"X", "">>, <<"", "Y">>>>
    /\ \A k \in 1..Len(table_out.tf_responses) : InRange(table_out.tf_responses[k])

\* the positions of the header lines of the text, in order
HeaderPositions == Ascending({p \in 1..Len(content) : HeaderMatch(content[p])})

\* the last line of the stretch that starts after header line p and ends
\* before the next header line whose level is at most bound
RECURSIVE StretchEnd(_, _)
StretchEnd(p, bound) ==
    IF p + 1 > Len(content) THEN p
    ELSE IF HeaderMatch(content[p + 1]) /\ content[p + 1].lv <= bound THEN p
    ELSE StretchEnd(p + 1, bound)

\* the text strictly between the header of section i and the next header at
\* the same or a higher level (a level number at most its own)
ExtentToSameOrHigher(i) ==
    SubSeq(content, HeaderPositions[i] + 1,
           StretchEnd(HeaderPositions[i], content[HeaderPositions[i]].lv))

\* the text strictly between the header of section i and the next header line
ExtentToNextHeader(i) ==
    SubSeq(content, HeaderPositions[i] + 1, StretchEnd(HeaderPositions[i], 6))

\* C20 as stated: the content blocks of a section are those of the text
\* between its header and the next header at the same or a higher level, the
\* text under intervening deeper headers included (stated for the tables and
\* the images, which lie within the lines between two headers).
C20_Original ==
    (Parsed /\ HeaderLevels(content) # <<>>) =>
        \A i \in 1..NumSections :
            /\ doc.sections[i].content.tables = TablesInText(ExtentToSameOrHigher(i))
            /\ doc.sections[i].content.images = ExtractImages(ExtentToSameOrHigher(i))

\* C20 amended: the content blocks of a section are extracted from the text
\* strictly between its header and the next header line of any level; text
\* under an intervening deeper header is content of that deeper section and
\* not of the enclosing one.
C20_Amended ==
    (Parsed /\ HeaderLevels(content) # <<>>) =>
        /\ NumSections = Len(HeaderPositions)
        /\ \A i \in 1..NumSections :
              doc.sections[i].content = ParseContent(ExtentToNextHeader(i))

\* a section without a table of its own has a subsection that holds a table
C20_Witness ==
    /\ Parsed
    /\ \E i \in 1..NumSections : \E k \in 1..Len(doc.subs[i]) :
          /\ doc.sections[doc.subs[i][k]].content.tables # <<>>
          /\ doc.sections[i].content.tables = <<>>

Extracted == op = "data"

\* C19 as stated: the document extract_data returns and the outcome of
\* extract_csv are the same in every environment: whatever the Ollama
\* service does (unreachable, failing, or answering anything), the call
\* returns what it returns when the service is unreachable.
C19_EnvironmentIndependent ==
    /\ Extracted => json_data.document = ExtractData(content, OllamaDown).document
    /\ Exported =>
          /\ out.status = ExtractCsvResult(content, req.index, req.all, OllamaDown).status
          /\ out.records = ExtractCsvResult(content, req.index, req.all, OllamaDown).records

Rendered == op = "html"

\* what the last call did for its caller: "ok" when it returned its value,
\* otherwise the exception it raised or, for extract_data, the error report.
\* parse has no raise statement, and the operations of it that can fail (the
\* top of the stack, max of the levels) stand behind the tests of the code
Outcome ==
    CASE op = "csv" -> out.status
      [] op = "html" -> html.status
      [] op = "data" -> IF json_data.format = "error" THEN "error" ELSE "ok"
      [] OTHER -> "ok"

\* the text has a code fence that no later fence closes
UnterminatedFence(lines) ==
    \E i \in 1..Len(lines) :
        lines[i].k = "fence" /\ ~InCodeSpan(FencedSpans(MarkdownLines(lines), 1), i)

\* the text ends in a pipe row that no separator follows
DanglingRow(lines) == Last(lines).k = "row"

\* C17: parse, the renderer's extract and extract_data return a value on
\* every text, well-formed or not: extract raises nothing, extract_data
\* returns a document and not an error report; a call that fails for its
\* caller is a call of extract_csv.
C17_NeverFails ==
    /\ Rendered => html.status = "ok"
    /\ Extracted => json_data.format \in {"structured_json", "ollama_structured_json"}
    /\ Outcome # "ok" => Exported

\* the renderer has returned on a text with an unterminated fence that ends in
\* a pipe row with no separator, a text on which extract_csv fails
C17_Witness ==
    /\ Rendered
    /\ UnterminatedFence(content)
    /\ DanglingRow(content)
    /\ html.status = "ok"
    /\ html.html # <<>>
    /\ ExtractCsvResult(content, 0, FALSE, OllamaDown).status = "NoTablesFound"

\* what a call returns when no other call is made
Alone(method, arg) ==
    IF method = "parse" THEN [doc |-> Parse(arg), html |-> NoHtml]
    ELSE [doc |-> EmptyDocument, html |-> Extract(arg)]

\* extract on its own, after n passes
RECURSIVE PassesDone(_, _)
PassesDone(fr, n) ==
    IF fr.pass >= n \/ ExtractDone(fr) THEN fr ELSE PassesDone(ExtractPass(fr), n)

\* the frame holds what the call has computed from its own argument so far
OwnFrame(call, f) ==
    /\ f.lines = call.arg
    /\ call.method = "parse" =>
          /\ f.at \in 1..(Len(call.arg) + 1)
          /\ f.st = ParseLines(SubSeq(call.arg, 1, f.at - 1), 1, ParseStart)
    /\ call.method = "extract" => f.fr = PassesDone(ExtractStart(call.arg), f.fr.pass)

\* C18: however the steps of the calls interleave, a call in progress works
\* on what it has itself computed from its own argument, and a finished call
\* has returned what it returns when it is the only call.
C18_Independent ==
    \A c \in CallIds :
        /\ Running(c) => OwnFrame(calls[c], frames[FrameOf(c)])
        /\ calls[c].pc = "done" => calls[c].result = Alone(calls[c].method, calls[c].arg)

\* a parse and an extract on different texts ran while the other was in
\* progress, and both have returned
C18_Witness ==
    /\ calls[1].method = "parse"
    /\ calls[2].method = "extract"
    /\ calls[1].arg # calls[2].arg
    /\ calls[1].pc = "done" /\ calls[1].overlapped
    /\ calls[2].pc = "done" /\ calls[2].overlapped
    /\ calls[1].result.doc.sections # <<>>
    /\ calls[2].result.html.html # <<>>

\* a text that is a header-only table: a header row of non-empty cells and a
\* separator row of as many dash cells, then lines of text or blank lines
HeaderOnlyTable(lines) ==
    /\ Len(lines) >= 2
    /\ RowLike(lines[1])
    /\ \A c \in 1..Len(lines[1].cells) : lines[1].cells[c] \notin {"", "-"}
    /\ RowLike(lines[2])
    /\ Len(lines[2].cells) = Len(lines[1].cells)
    /\ \A c \in 1..Len(lines[2].cells) : lines[2].cells[c] = "-"
    /\ \A i \in 3..Len(lines) : lines[i].k \in {"text", "blank"}

\* C21 as stated: a table of a header row and a separator row with no body
\* row is a Table block of the parsed document, its columns the number of
\* header cells and its rows empty, and extract_csv exports it as one record,
\* the header cells.
C21_HeaderOnlyTable ==
    HeaderOnlyTable(content) =>
        /\ Parsed =>
              SectionTables(doc, doc.top) = <<MakeTable(content[1].cells, <<>>)>>
        /\ (Exported /\ req.index = 0 /\ req.reply = OllamaDown) =>
              /\ out.status = "ok"
              /\ out.records = <<content[1].cells>>

\* C22 as stated: whatever the indices of the predictions,
\* _organize_table_data returns a structured num_rows x num_cols grid; a
\* prediction whose row or column lies outside the grid writes to no cell,
\* so that the cell (r, c) holds the text of the last prediction at (r, c)
\* and every cell without a prediction of its own holds the empty string.
C22_OutOfRangeDropped ==
    Organized =>
        /\ processed_table.type = "structured_table"
        /\ Len(processed_table.grid) = table_out.num_rows
        /\ \A r \in 1..table_out.num_rows :
              /\ Len(processed_table.grid[r]) = table_out.num_cols
              /\ \A c \in 1..table_out.num_cols :
                    processed_table.grid[r][c] =
                        IF PredictionsAt(r - 1, c - 1) = {} THEN ""
                        ELSE PredictionText(GreatestOf(PredictionsAt(r - 1, c - 1)))

PageDone == page.pc = "done"

\* the processing of the table block degrades: the structure model raises,
\* or a cell prediction has an index for which grid[row][col] raises
Degrades(table_block) ==
    \/ table_block.answer.raises
    \/ \E k \in 1..Len(table_block.answer.table_out.tf_responses) :
          \/ ~ValidIndex(table_block.answer.table_out.num_rows,
                         table_block.answer.table_out.tf_responses[k].row)
          \/ ~ValidIndex(table_block.answer.table_out.num_cols,
                         table_block.answer.table_out.tf_responses[k].col)

\* the lines of the page markdown that come from text blocks
TextLinesOf(markdown) ==
    {i \in 1..Len(markdown) : markdown[i].k \in {"hdr", "ul", "text"} /\ Len(markdown[i].cells) = 1}

\* C23 as stated: no exception leaves the processing of the tables, every
\* table block gives one table and every text block with text its line of
\* the page markdown, whether or not another table degrades; and a table
\* block whose processing degrades gives a simple_table with the raw text
\* and the bbox of the region, the raw text standing in the page markdown.
C23_DegradedTable ==
    PageDone =>
        /\ ~page.raised
        /\ Len(page.processed_tables) = Len(page.table_blocks)
        /\ Cardinality(TextLinesOf(page.markdown))
              = Cardinality({i \in 1..Len(page.text_blocks) : Strip(page.text_blocks[i].text) # ""})
        /\ \A k \in 1..Len(page.table_blocks) :
              Degrades(page.table_blocks[k]) =>
                  /\ page.processed_tables[k].type = "simple_table"
                  /\ page.processed_tables[k].bbox = page.table_blocks[k].bbox
                  /\ TableText(page.processed_tables[k]) = page.table_blocks[k].text
                  /\ \E i \in 1..Len(page.markdown) :
                        page.markdown[i].cells = <<"**Table:**", page.table_blocks[k].text>>

\* the orders in which n elements can be listed
Orders(n) == {f \in [1..n -> 1..n] : \A i, j \in 1..n : f[i] = f[j] => i = j}

\* the text blocks and the tables of the page in the order the recognition
\* stage produced them
Recognised ==
    [i \in 1..Len(SelectSeq(page.layout_results, KeptPrediction)) |->
        IF IsTableLabel(SelectSeq(page.layout_results, KeptPrediction)[i].label)
        THEN [type |-> "table", y |-> SelectSeq(page.layout_results, KeptPrediction)[i].bbox[2],
              x |-> SelectSeq(page.layout_results, KeptPrediction)[i].bbox[1]]
        ELSE [type |-> "text", y |-> SelectSeq(page.layout_results, KeptPrediction)[i].bbox[2],
              x |-> SelectSeq(page.layout_results, KeptPrediction)[i].bbox[1]]]

\* C24: the page markdown is the markdown of the text blocks and the tables
\* of the page, each taken once (a text block with blank text giving
\* nothing), in an order in which the (y, x) of the bounding-box origins
\* never decreases, whatever the order of the predictions; no block or
\* table is lost on the way.
C24_MergedOrder ==
    (PageDone /\ ~page.raised) =>
        /\ Len(AllElements(page.text_blocks, page.processed_tables)) = Len(Recognised)
        /\ \E f \in Orders(Len(Recognised)) :
              /\ \A i, j \in 1..Len(Recognised) :
                    i < j => ~Before(AllElements(page.text_blocks, page.processed_tables)[f[j]],
                                     AllElements(page.text_blocks, page.processed_tables)[f[i]])
              /\ page.markdown =
                    Concat([i \in 1..Len(Recognised) |->
                               ElementMarkdown(
                                   AllElements(page.text_blocks, page.processed_tables)[f[i]])])
        /\ \A k \in 1..Len(Recognised) :
              Cardinality({i \in 1..Len(AllElements(page.text_blocks, page.processed_tables)) :
                              /\ AllElements(page.text_blocks, page.processed_tables)[i].type
                                    = Recognised[k].type
                              /\ AllElements(page.text_blocks, page.processed_tables)[i].y
                                    = Recognised[k].y
                              /\ AllElements(page.text_blocks, page.processed_tables)[i].x
                                    = Recognised[k].x})
                 = Cardinality({i \in 1..Len(Recognised) : Recognised[i] = Recognised[k]})

\* a heading low on the page was recognised first, then a table above it:
\* the markdown has the table and then the heading
C24_Witness ==
    /\ PageDone
    /\ Len(page.layout_results) = 2
    /\ page.layout_results[1].label = "title" /\ page.layout_results[1].bbox[2] = 120
    /\ page.layout_results[2].label = "table" /\ page.layout_results[2].bbox[2] = 10
    /\ Len(page.markdown) = 6
    /\ page.markdown[1] = RowLine(<<"b", "">>)
    /\ page.markdown[3] = RowLine(<<"", "Y">>)
    /\ page.markdown[5] = [k |-> "hdr", lv |-> 3, cells |-> <<"a">>]

\* a text that is one fenced code block: a fence, body lines, a fence
FencedBlock(lines) ==
    /\ Len(lines) >= 3
    /\ lines[1] = FenceLine
    /\ Last(lines) = FenceLine
    /\ \A i \in 2..(Len(lines) - 1) : lines[i] # FenceLine

\* C25 as stated, for a text that is one fenced code block: the HTML is the
\* body between "<pre><code>" and "</code></pre>", each body line the line
\* of the text, escaped, and no pass after the code block pass has rewritten
\* a line of it or put it in a paragraph.
C25_CodeBodyKept ==
    (Rendered /\ FencedBlock(content)) =>
        /\ html.status = "ok"
        /\ html.html =
              [i \in 1..(Len(content) - 2) |->
                  [p |-> FALSE,
                   lines |-> <<[Markdown(content[i + 1]) EXCEPT
                                   !.code = CodePosition(i + 1, 2, Len(content) - 1)]>>]]

\* the text as the paragraph pass receives it
BeforeParagraphs(lines) == PassesDone(ExtractStart(lines), NumPasses - 1).html

\* a line emitted by a block-level pass: a line of HTML of the table,
\* blockquote, header or list pass, or a line of a code block
BlockLevelOutput(h) == h.k = "html" \/ h.code # ""

\* the paragraph of a run of lines, none for an empty run
WrapRun(run) == IF run = <<>> THEN <<>> ELSE <<[p |-> TRUE, lines |-> run]>>

\* every line of block-level output put out as it is, every maximal run of
\* other non-blank lines as one paragraph
RECURSIVE WrapRuns(_, _, _)
WrapRuns(lines, i, run) ==
    IF i > Len(lines) THEN WrapRun(run)
    ELSE IF BlockLevelOutput(lines[i])
         THEN WrapRun(run) \o <<[p |-> FALSE, lines |-> <<lines[i]>>]>> \o WrapRuns(lines, i + 1, <<>>)
    ELSE IF lines[i].k = "blank" THEN WrapRun(run) \o WrapRuns(lines, i + 1, <<>>)
    ELSE WrapRuns(lines, i + 1, Append(run, lines[i]))

\* C26 as stated: in the HTML, every line that a block-level pass emitted
\* (the lines of a table, of a list with its closing tag, of a code block,
\* a blockquote, a header) stands outside any paragraph, and every maximal
\* run of consecutive non-blank lines that are no block-level output is
\* exactly one paragraph, in source order; no paragraph is empty.
C26_ParagraphWrapping ==
    (Rendered /\ html.status = "ok") =>
        /\ \A e \in 1..Len(html.html) :
              html.html[e].p =>
                  /\ html.html[e].lines # <<>>
                  /\ \A j \in 1..Len(html.html[e].lines) : ~BlockLevelOutput(html.html[e].lines[j])
        /\ html.html = WrapRuns(BeforeParagraphs(content), 1, <<>>)

\* the lines of the returned HTML, those joined in a paragraph one by one
HtmlLines == Concat([e \in 1..Len(html.html) |-> html.html[e].lines])

\* C27 as stated, for the image: an image "![i](u)" of the text (outside
\* code blocks) is rendered by the image rule as an <img> element; the link
\* rule, which runs before it, does not consume it.
C27_ImageByOwnRule ==
    (Rendered /\ html.status = "ok") =>
        \A j \in 1..Len(HtmlLines) :
            (HtmlLines[j].k = "img" /\ HtmlLines[j].code = "") => HtmlLines[j].tag = "img"

\* ---------------------------------------------------------------------
\* C28: the text blocks grouped into lines
GroupingDone == grouping.pc = "done"

\* the line that holds the k-th block of the sorted list
LineOf(k) == CHOOSE i \in 1..Len(grouping.lines) : InSeq(grouping.text_blocks[k], grouping.lines[i])

\* the blocks before the k-th that share the line of block k - 1: the current
\* line when the k-th block is looked at
CurrentLineAt(k) ==
    LET before == SubSeq(grouping.text_blocks, 1, k - 1)
    IN SelectSeq(before, LAMBDA b : InSeq(b, grouping.lines[LineOf(k - 1)]))

\* the y of block k is at most the threshold away from the average y of the
\* current line
NearRunningAverage(k) ==
    LET line == CurrentLineAt(k)
        y == grouping.text_blocks[k].y
    IN /\ y * Len(line) - SumY(line) <= line_height_threshold * Len(line)
       /\ SumY(line) - y * Len(line) <= line_height_threshold * Len(line)

LinesPartitionBlocks ==
    /\ Len(Concat(grouping.lines)) = Len(grouping.text_blocks)
    /\ \A k \in 1..Len(grouping.text_blocks) :
          Occurrences(grouping.text_blocks[k], Concat(grouping.lines)) = 1

LinesByRunningAverage ==
    \A k \in 2..Len(grouping.text_blocks) :
       IF NearRunningAverage(k) THEN LineOf(k) = LineOf(k - 1)
       ELSE LineOf(k) = LineOf(k - 1) + 1

LinesSortedByX ==
    \A i \in 1..Len(grouping.lines) : \A a, b \in 1..Len(grouping.lines[i]) :
       a < b => grouping.lines[i][a].x <= grouping.lines[i][b].x

\* C28: when a service has grouped its sorted text blocks into lines, a
\* block is in the line of the block before it exactly when its y is at most
\* the line threshold away from the running average y of that line, and
\* otherwise opens the next line; every block is in exactly one line; the
\* lines follow the sorted order from top to bottom; each line is sorted by x.
C28_LineGrouping ==
    GroupingDone =>
        /\ LinesPartitionBlocks
        /\ Len(grouping.text_blocks) > 0 => LineOf(1) = 1
        /\ LinesByRunningAverage
        /\ LinesSortedByX

\* ---------------------------------------------------------------------
\* C29: the line cursors of the table, blockquote and list passes
CursorPasses == {"tables", "blockquotes", "lists"}

\* the passes of extract done before the pass reads its text
PassesBefore(pass) ==
    CASE pass = "tables" -> 1 [] pass = "blockquotes" -> 3 [] pass = "lists" -> 5

\* the lines the pass splits its text into, and the lines it returns
PassInput(pass, lines) == PassesDone(ExtractStart(lines), PassesBefore(pass)).html
PassOutput(pass, lines) == PassesDone(ExtractStart(lines), PassesBefore(pass) + 1).html

\* the iteration at line i takes the block branch: "i = j" or
\* "i += len(list_lines)" and continue, and not the branch "i += 1"
BlockBranch(pass, lines, i) ==
    CASE pass = "tables" ->
             /\ HasPipe(lines[i])
             /\ HasNextLine(lines, i)
             /\ HasPipe(lines[i + 1])
             /\ SeparatorMatch(lines[i + 1])
      [] pass = "blockquotes" -> QuoteMatch(lines[i])
      [] pass = "lists" -> ListTypeOf(lines[i]) # ""

\* the value of i after the iteration that begins at line i
CursorNext(pass, lines, i) ==
    IF ~BlockBranch(pass, lines, i) THEN i + 1
    ELSE CASE pass = "tables" -> TableRunEnd(lines, i + 1)
           [] pass = "blockquotes" -> QuoteRunEnd(lines, i + 1)
           [] pass = "lists" -> CollectListItems(lines, i, ListTypeOf(lines[i]))

\* what the iteration that begins at line i appends to result_lines
BranchOutput(pass, lines, i) ==
    IF ~BlockBranch(pass, lines, i) THEN <<lines[i]>>
    ELSE LET block == SubSeq(lines, i, CursorNext(pass, lines, i) - 1)
         IN CASE pass = "tables" -> ConvertTableToHtml(block)
              [] pass = "blockquotes" -> BlockquoteHtml(block)
              [] pass = "lists" -> ConvertListToHtml(block, ListTypeOf(lines[i]))

\* the lines at which the iterations of the outer loop begin, in order: the
\* values of i from line i on, for at most fuel iterations
RECURSIVE CursorTrace(_, _, _, _)
CursorTrace(pass, lines, i, fuel) ==
    IF i > Len(lines) \/ fuel = 0 THEN <<>>
    ELSE <<i>> \o CursorTrace(pass, lines, CursorNext(pass, lines, i), fuel - 1)

Cursors(pass, lines) == CursorTrace(pass, lines, 1, Len(lines))

\* every iteration, wherever it begins, moves the cursor on, and not past
\* the end of the lines
CursorsAdvance(pass, lines) ==
    \A i \in 1..Len(lines) : CursorNext(pass, lines, i) \in (i + 1)..(Len(lines) + 1)

\* the loop is over after the iterations at the cursors
LoopEnds(pass, lines, cursors) ==
    IF lines = <<>> THEN cursors = <<>>
    ELSE cursors # <<>> /\ CursorNext(pass, lines, Last(cursors)) = Len(lines) + 1

\* every line is consumed by the iteration at exactly one cursor
ConsumedOnce(pass, lines, cursors) ==
    \A j \in 1..Len(lines) :
       Cardinality({k \in 1..Len(cursors) :
                       cursors[k] <= j /\ j < CursorNext(pass, lines, cursors[k])}) = 1

\* the outputs of the iterations, in the order of the loop
IterationOutputs(pass, lines, cursors) ==
    Concat([k \in 1..Len(cursors) |-> BranchOutput(pass, lines, cursors[k])])

PassConsumesLines(pass, lines, output) ==
    /\ CursorsAdvance(pass, lines)
    /\ LoopEnds(pass, lines, Cursors(pass, lines))
    /\ ConsumedOnce(pass, lines, Cursors(pass, lines))
    /\ output = IterationOutputs(pass, lines, Cursors(pass, lines))

\* C29: in the table pass, the blockquote pass and the list pass of extract,
\* over the text the pass receives, every iteration moves the line cursor on
\* by at least one line and never past the end, the loop is over after at
\* most as many iterations as there are lines, every line is consumed by
\* exactly one iteration, what the pass returns is what these iterations put
\* out, and extract returns.  (Stated of a text when the result is made and
\* when extract has been called on it.)
C29_CursorsAdvance ==
    /\ (op = "new" \/ Rendered) =>
          \A pass \in CursorPasses :
             PassConsumesLines(pass, PassInput(pass, content), PassOutput(pass, content))
    /\ Rendered => html.status = "ok"

\* an iteration of the pass that consumes more than one line
LongIteration(pass, lines) ==
    \E k \in 1..Len(Cursors(pass, lines)) :
       CursorNext(pass, lines, Cursors(pass, lines)[k]) >= Cursors(pass, lines)[k] + 2

\* extract has returned on a text in which the list pass collected a list of
\* several lines in one iteration and went on with the lines after it
C29_Witness ==
    /\ Rendered
    /\ html.status = "ok"
    /\ LongIteration("lists", PassInput("lists", content))
    /\ Len(Cursors("lists", PassInput("lists", content))) >= 2

\* ---------------------------------------------------------------------
\* C30: the cache of a CloudConversionResult
CloudReady == cloud.pc = "ready"
LastCall == cloud.last

\* the contents the API has answered requests for the key with
SuccessesOf(key) == IF key \in DOMAIN cloud.successes THEN cloud.successes[key] ELSE <<>>

\* the last call posted a request that got no content: the rate limit error
\* was raised, or the local conversion answered
FailedRequest ==
    /\ LastCall.contacted
    /\ LastCall.output.source # "cloud" \/ LastCall.output.status # "ok"

====
